---- MODULE Spec2Model ----
(***************************************************************************)
(* Model of the Chatsave browser extension: the HTML sanitizer of the      *)
(* ChatGPT content script, the DOM-to-markdown extractor shared by the     *)
(* content scripts, the markdown renderer of the viewer, the message        *)
(* listener of the background service worker with its storage layer, and   *)
(* the page side of the extension: sendToBackground, debounce, the save    *)
(* indicator, the content script's save triggers and the viewer's list.    *)
(*                                                                         *)
(* Strings are sequences of one-character strings.  HTML produced by the   *)
(* renderer is a sequence of tokens: a one-character string for a          *)
(* character that comes from the input, and a longer string for a piece    *)
(* of one of the renderer's own templates ("<li>", "&lt;", ...).           *)
(***************************************************************************)
EXTENDS Integers, Sequences, FiniteSets, TLC

VARIABLES
    sanIn, sanOut, sanPc,                       \* sanitizeHTML
    tree, md, extPc,                            \* extractTextContent
    raw, text, codeBlocks, inlineCodes,         \* renderMarkdown
    lines, i, blocks, iters, renPc, out, given,
    dbOk, reqs, responses, store, badge, clock,    \* background worker
    txOwner,
    sbPc, sbSent, sbSends,                      \* sendToBackground
    dNow, timers, dCalls, dRuns,                \* debounce
    hasOnClick, clickBusy, inFlight, clicks,    \* save indicator
    allConversations, currentConversation,      \* viewer
    loading, vwReqs, vwStore, vwDeleted,
    site, path, els, inited, armed,             \* content script
    currentConvId, debounced, lastSent

sanVars == <<sanIn, sanOut, sanPc>>
extVars == <<tree, md, extPc>>
renVars == <<raw, text, codeBlocks, inlineCodes, lines, i, blocks, iters,
             renPc, out, given>>
bgVars  == <<dbOk, reqs, responses, store, badge, clock, txOwner>>
sbVars  == <<sbPc, sbSent, sbSends>>
dVars   == <<dNow, timers, dCalls, dRuns>>
indVars == <<hasOnClick, clickBusy, inFlight, clicks>>
vwVars  == <<allConversations, currentConversation, loading, vwReqs, vwStore,
             vwDeleted>>
csVars  == <<site, path, els, inited, armed, currentConvId, debounced,
             lastSent>>
pageVars == <<csVars, vwVars, indVars, dVars, sbVars>>
coreVars == <<sanVars, extVars, renVars, bgVars>>
vars    == <<coreVars, pageVars>>

(***************************************************************************)
(* Generic helpers on sequences                                            *)
(***************************************************************************)
RECURSIVE Flatten(_)
Flatten(ss) == IF ss = <<>> THEN <<>> ELSE Head(ss) \o Flatten(Tail(ss))

SeqsUpTo(S, n) == UNION {[1..k -> S] : k \in 0..n}

Range(f) == {f[k] : k \in DOMAIN f}

\* s.substring(from - 1): the characters of s from position `from` on
From(s, from) == IF from > Len(s) THEN <<>> ELSE SubSeq(s, from, Len(s))

\* s.startsWith(p)
StartsWith(s, p) == Len(s) >= Len(p) /\ SubSeq(s, 1, Len(p)) = p

\* s.startsWith(p, at - 1)
StartsWithAt(s, p, at) ==
    at + Len(p) - 1 <= Len(s) /\ SubSeq(s, at, at + Len(p) - 1) = p

(***************************************************************************)
(* sanitizeHTML (ChatGPT content script)                                   *)
(*                                                                         *)
(* A DOM node is [tag, attrs, kids]; a text node has tag "#text".  attrs   *)
(* is a set of <<name, value>> pairs, one per attribute name; the value of *)
(* a class attribute is its sequence of class names.                       *)
(***************************************************************************)
ALLOWED_TAGS ==
    {"p", "br", "strong", "b", "em", "i", "u", "a",
     "h1", "h2", "h3", "h4", "h5", "h6",
     "ul", "ol", "li",
     "pre", "code", "blockquote",
     "table", "thead", "tbody", "tr", "th", "td",
     "hr", "img", "span", "div", "sup", "sub"}

ALLOWED_ATTRS == {"href", "src", "alt", "class", "target", "rel"}

HText == [tag |-> "#text", attrs |-> {}, kids |-> <<>>]
HElem(t, as, ks) == [tag |-> t, attrs |-> as, kids |-> ks]

\* className.match(/language-\S+/)?.[0] on a list of class names: the first
\* class name that holds "language-" followed by a character
LangTokens == {"language-py"}
LangClass(cls) ==
    LET hits == {k \in 1..Len(cls) : cls[k] \in LangTokens}
    IN  IF hits = {} THEN <<>>
        ELSE <<cls[CHOOSE k \in hits : \A j \in hits : k <= j]>>

\* lines 169-187: the attributes left on an allowed element
CleanAttrs(tag, as) ==
    LET kept  == {a \in as : a[1] \in ALLOWED_ATTRS}
        other == {a \in kept : a[1] # "class"}
        cls   == {a \in kept : a[1] = "class"}
    IN  IF tag = "code"
        THEN other \cup {<<"class", LangClass(a[2])>> :
                            a \in {c \in cls : LangClass(c[2]) # <<>>}}
        ELSE other

\* cleanNode(node): the loop runs over a snapshot of node.childNodes taken
\* before any change, so the children a disallowed element leaves behind
\* when it is unwrapped are put into `node` but are not in the snapshot.
RECURSIVE cleanNode(_)
cleanNode(node) ==
    LET one(child) ==
            IF child.tag = "#text" THEN <<child>>
            ELSE IF child.tag \notin ALLOWED_TAGS
                 THEN child.kids
                 ELSE <<HElem(child.tag, CleanAttrs(child.tag, child.attrs),
                              cleanNode(child).kids)>>
    IN  [node EXCEPT !.kids =
            Flatten([k \in 1..Len(node.kids) |-> one(node.kids[k])])]

\* sanitizeHTML(rawHtml): the children of the cleaned temporary div
sanitizeHTML(frag) == cleanNode(HElem("div", {}, frag)).kids

\* All elements of a fragment, at any depth
RECURSIVE ElementsOf(_)
ElementsOf(frag) ==
    IF frag = <<>> THEN {}
    ELSE LET n == Head(frag)
         IN  (IF n.tag = "#text" THEN {} ELSE {n} \cup ElementsOf(n.kids))
             \cup ElementsOf(Tail(frag))

\* Bounds of the sanitizer's inputs
SanDepth == 2
SanWidth == 2

SanTags == {"div", "font", "script", "code"}
SanAttrSets ==
    {{}, {<<"onclick", <<"e">>>>},
     {<<"class", <<"hljs", "language-py">>>>, <<"href", <<"u">>>>}}

RECURSIVE HNodes(_)
HNodes(d) ==
    IF d = 0 THEN {HText}
    ELSE LET sub == HNodes(d - 1)
         IN  {HText} \cup
             {HElem(t, as, ks) : t \in SanTags, as \in SanAttrSets,
                                 ks \in SeqsUpTo(sub, SanWidth)}

SanInputs == {<<n>> : n \in HNodes(SanDepth)}

SanIdle == sanIn = <<>> /\ sanOut = <<>> /\ sanPc = "idle"

SanInit == sanIn \in SanInputs /\ sanOut = <<>> /\ sanPc = "start"

Sanitize ==
    /\ sanPc = "start"
    /\ sanOut' = sanitizeHTML(sanIn)
    /\ sanPc' = "done"
    /\ UNCHANGED <<sanIn, extVars, renVars, bgVars, pageVars>>

(***************************************************************************)
(* extractTextContent (common content-script utilities)                    *)
(*                                                                         *)
(* A node of the page is [tag, text, href, cls, alt, src, kids]: text is   *)
(* the data of a text node (tag "#text"), href/alt/src are attribute       *)
(* values (<<>> when the attribute is missing or empty) and cls is the     *)
(* list of class names.                                                    *)
(***************************************************************************)
Txt(t) == [tag |-> "#text", text |-> t, href |-> <<>>, cls |-> <<>>,
           alt |-> <<>>, src |-> <<>>, kids |-> <<>>]
El(t, ks) == [tag |-> t, text |-> <<>>, href |-> <<>>, cls |-> <<>>,
              alt |-> <<>>, src |-> <<>>, kids |-> ks]
\* A null or undefined element
NullRoot == El("#null", <<>>)
Anchor(h, ks) == [El("a", ks) EXCEPT !.href = h]
CodeEl(c, ks) == [El("code", ks) EXCEPT !.cls = c]

\* The backtick character (U+0060), which a TLA+ string cannot hold
BT == "BACKTICK"

WS == {" ", "\n", "\t"}

\* String.prototype.trim / trimEnd
RECURSIVE TrimStart(_)
TrimStart(s) ==
    IF s # <<>> /\ Head(s) \in WS THEN TrimStart(Tail(s)) ELSE s

RECURSIVE TrimEnd(_)
TrimEnd(s) ==
    IF s # <<>> /\ s[Len(s)] \in WS THEN TrimEnd(SubSeq(s, 1, Len(s) - 1))
    ELSE s

Trim(s) == TrimEnd(TrimStart(s))

\* s.toLowerCase()
UpperLetters == <<"A", "B", "C", "D", "E", "F", "G", "H", "I", "J", "K", "L", "M",
                  "N", "O", "P", "Q", "R", "S", "T", "U", "V", "W", "X", "Y", "Z">>
LowerLetters == <<"a", "b", "c", "d", "e", "f", "g", "h", "i", "j", "k", "l", "m",
                  "n", "o", "p", "q", "r", "s", "t", "u", "v", "w", "x", "y", "z">>
LowerChar(c) ==
    IF \E k \in 1..26 : UpperLetters[k] = c
    THEN LowerLetters[CHOOSE k \in 1..26 : UpperLetters[k] = c]
    ELSE c
ToLower(s) == [k \in 1..Len(s) |-> LowerChar(s[k])]

\* s.includes(q)
Includes(s, q) == \E k \in 1..(Len(s) + 1) : StartsWithAt(s, q, k)

\* s.split('\n')
RECURSIVE SplitNL(_)
SplitNL(s) ==
    LET nl == {k \in 1..Len(s) : s[k] = "\n"}
    IN  IF nl = {} THEN <<s>>
        ELSE LET k == CHOOSE x \in nl : \A y \in nl : x <= y
             IN  <<SubSeq(s, 1, k - 1)>> \o SplitNL(From(s, k + 1))

\* parts.join(sep)
RECURSIVE Join(_, _)
Join(parts, sep) ==
    IF parts = <<>> THEN <<>>
    ELSE IF Len(parts) = 1 THEN parts[1]
    ELSE parts[1] \o sep \o Join(Tail(parts), sep)

\* 'x'.repeat(n)
RECURSIVE Repeat(_, _)
Repeat(s, n) == IF n = 0 THEN <<>> ELSE s \o Repeat(s, n - 1)

\* String(n) for a natural number
DigitChar(d) == <<"0", "1", "2", "3", "4", "5", "6", "7", "8", "9">>[d + 1]
RECURSIVE NumStr(_)
NumStr(n) ==
    IF n < 10 THEN <<DigitChar(n)>>
    ELSE NumStr(n \div 10) \o <<DigitChar(n % 10)>>

\* node.textContent: the text of every text node under it, in document order
RECURSIVE TextContent(_)
TextContent(n) ==
    IF n.tag = "#text" THEN n.text
    ELSE Flatten([k \in 1..Len(n.kids) |-> TextContent(n.kids[k])])

\* The element descendants of a node, in document order
RECURSIVE Descendants(_)
Descendants(n) ==
    Flatten([k \in 1..Len(n.kids) |->
                IF n.kids[k].tag = "#text" THEN <<>>
                ELSE <<n.kids[k]>> \o Descendants(n.kids[k])])

\* node.querySelectorAll(tags), node.querySelector(tag)
QuerySelectorAll(n, tags) == SelectSeq(Descendants(n), LAMBDA d : d.tag \in tags)

\* cleanMarkdown: collapse 3+ newlines to 2, trim the newlines at both ends
RECURSIVE CollapseNL(_)
CollapseNL(s) ==
    IF s = <<>> THEN <<>>
    ELSE IF StartsWith(s, <<"\n", "\n", "\n">>)
         THEN LET rest == CHOOSE r \in {From(s, k) : k \in 1..(Len(s) + 1)} :
                              /\ r = <<>> \/ Head(r) # "\n"
                              /\ \A k \in 1..(Len(s) - Len(r)) : s[k] = "\n"
              IN  <<"\n", "\n">> \o CollapseNL(rest)
         ELSE <<Head(s)>> \o CollapseNL(Tail(s))

RECURSIVE StripLeadNL(_)
StripLeadNL(s) ==
    IF s # <<>> /\ Head(s) = "\n" THEN StripLeadNL(Tail(s)) ELSE s

RECURSIVE StripTrailNL(_)
StripTrailNL(s) ==
    IF s # <<>> /\ s[Len(s)] = "\n"
    THEN StripTrailNL(SubSeq(s, 1, Len(s) - 1)) ELSE s

\* A bug cleanMarkdown could have: the edges are trimmed, the blank-line runs
\* are left as they are
cleanMarkdownNoCollapse(t) == StripTrailNL(StripLeadNL(t))

cleanMarkdown(t) == StripTrailNL(StripLeadNL(CollapseNL(t)))

\* extractCodeLanguage: /language-(\w+)/ on the class list
LangOf(c) == IF c = "language-py" THEN <<"p", "y">>
             ELSE IF c = "language-js" THEN <<"j", "s">> ELSE <<>>
extractCodeLanguage(codeEl) ==
    LET hits == {k \in 1..Len(codeEl.cls) : LangOf(codeEl.cls[k]) # <<>>}
    IN  IF hits = {} THEN <<>>
        ELSE LangOf(codeEl.cls[CHOOSE k \in hits : \A j \in hits : k <= j])

\* A bug extractTableContent could have: the separator follows every row
extractTableContentSepAll(table) ==
    LET rows == QuerySelectorAll(table, {"tr"})
        cellTexts(row) ==
            LET cells == QuerySelectorAll(row, {"th", "td"})
            IN  [k \in 1..Len(cells) |-> Trim(TextContent(cells[k]))]
        rowLine(row) ==
            <<"|", " ">> \o Join(cellTexts(row), <<" ", "|", " ">>)
                \o <<" ", "|", "\n">>
        sepLine(row) ==
            <<"|", " ">>
                \o Join([k \in 1..Len(cellTexts(row)) |-> <<"-", "-", "-">>],
                        <<" ", "|", " ">>)
                \o <<" ", "|", "\n">>
    IN  Flatten([k \in 1..Len(rows) |-> rowLine(rows[k]) \o sepLine(rows[k])])

\* extractTableContent(table)
extractTableContent(table) ==
    LET rows == QuerySelectorAll(table, {"tr"})
        cellTexts(row) ==
            LET cells == QuerySelectorAll(row, {"th", "td"})
            IN  [k \in 1..Len(cells) |-> Trim(TextContent(cells[k]))]
        rowLine(row) ==
            <<"|", " ">> \o Join(cellTexts(row), <<" ", "|", " ">>)
                \o <<" ", "|", "\n">>
        sepLine(row) ==
            <<"|", " ">>
                \o Join([k \in 1..Len(cellTexts(row)) |-> <<"-", "-", "-">>],
                        <<" ", "|", " ">>)
                \o <<" ", "|", "\n">>
    IN  Flatten([k \in 1..Len(rows) |->
                    rowLine(rows[k]) \o
                    (IF k = 1 THEN sepLine(rows[k]) ELSE <<>>)])

NonContentTags == {"svg", "button", "nav", "style", "script"}
HeadingTags == {"h1", "h2", "h3", "h4", "h5", "h6"}
HeadingLevel(t) == CHOOSE n \in 1..6 : t = <<"h1", "h2", "h3", "h4", "h5", "h6">>[n]

JsScheme == <<"j", "a", "v", "a", "s", "c", "r", "i", "p", "t", ":">>

\* The link branch, lines 105-114
LinkMarkdown(href, txt) ==
    IF href # <<>> /\ ~StartsWith(href, JsScheme)
    THEN <<"[">> \o txt \o <<"]", "(">> \o href \o <<")">>
    ELSE txt

\* The fenced block built for a <pre>, lines 35-41
PreMarkdown(child) ==
    LET codes   == QuerySelectorAll(child, {"code"})
        codeEl  == IF codes # <<>> THEN codes[1] ELSE child
        lang    == extractCodeLanguage(codeEl)
        codeTxt == TextContent(codeEl)
    IN  <<"\n", BT, BT, BT>> \o lang \o <<"\n">> \o Trim(codeTxt)
            \o <<"\n", BT, BT, BT, "\n">>

RECURSIVE extractTextContent(_, _, _)
RECURSIVE ExtractChildren(_, _, _, _)
RECURSIVE ExtractChild(_, _, _, _)
RECURSIVE processListElement(_, _)
RECURSIVE processListItem(_, _, _)

\* extractTextContent(element, {inline, indent})
extractTextContent(element, inline, indent) ==
    LET result == ExtractChildren(element.kids, inline, indent, <<>>)
    IN  IF element = NullRoot THEN <<>>           \* if (!element) return ''
        ELSE IF inline THEN result ELSE cleanMarkdown(result)

\* The for-loop over element.childNodes, with `result` built so far
ExtractChildren(kids, inline, indent, result) ==
    IF kids = <<>> THEN result
    ELSE ExtractChildren(Tail(kids), inline, indent,
                         ExtractChild(Head(kids), inline, indent, result))

\* One pass of the loop body: `result` after `child`
ExtractChild(child, inline, indent, result) ==
    LET tag == child.tag
    IN  IF tag = "#text" THEN result \o child.text
        ELSE IF tag \in NonContentTags THEN result
        ELSE IF tag = "pre" THEN result \o PreMarkdown(child)
        ELSE IF tag = "code"
             THEN result \o <<BT>> \o TextContent(child) \o <<BT>>
        ELSE IF tag = "br"
             THEN result \o (IF inline THEN <<" ">> ELSE <<"\n">>)
        ELSE IF tag = "p"
             THEN IF inline
                  THEN LET inner == extractTextContent(child, TRUE, indent)
                           sep   == IF Len(result) > 0 /\ result[Len(result)] # " "
                                    THEN <<" ">> ELSE <<>>
                       IN  result \o sep \o inner
                  ELSE result \o <<"\n">>
                           \o extractTextContent(child, FALSE, indent) \o <<"\n">>
        ELSE IF tag = "div"
             THEN result \o extractTextContent(child, inline, indent)
        ELSE IF tag \in {"ul", "ol"}
             THEN result \o processListElement(child, indent)
        ELSE IF tag = "li"
             THEN result \o processListItem(child, indent, <<"-">>)
        ELSE IF tag \in {"strong", "b"}
             THEN result \o <<"*", "*">>
                      \o extractTextContent(child, inline, indent) \o <<"*", "*">>
        ELSE IF tag \in {"em", "i"}
             THEN result \o <<"*">>
                      \o extractTextContent(child, inline, indent) \o <<"*">>
        ELSE IF tag \in HeadingTags
             THEN result \o <<"\n", "\n">> \o Repeat(<<"#">>, HeadingLevel(tag))
                      \o <<" ">> \o Trim(extractTextContent(child, TRUE, 0))
                      \o <<"\n", "\n">>
        ELSE IF tag = "a"
             THEN result \o LinkMarkdown(child.href,
                                extractTextContent(child, inline, indent))
        ELSE IF tag = "blockquote"
             THEN LET inner == Trim(extractTextContent(child, FALSE, 0))
                      ls    == SplitNL(inner)
                  IN  result \o <<"\n">>
                          \o Join([k \in 1..Len(ls) |-> <<">", " ">> \o ls[k]],
                                  <<"\n">>)
                          \o <<"\n">>
        ELSE IF tag = "table"
             THEN result \o <<"\n">> \o extractTableContent(child) \o <<"\n">>
        ELSE IF tag = "img"
             THEN result \o <<"!", "[">>
                      \o (IF child.alt # <<>> THEN child.alt
                          ELSE <<"i", "m", "a", "g", "e">>)
                      \o <<"]", "(">> \o child.src \o <<")">>
        ELSE IF tag = "hr"
             THEN result \o <<"\n", "\n", "-", "-", "-", "\n", "\n">>
        ELSE result \o extractTextContent(child, inline, indent)

\* processListElement(listEl, indent)
processListElement(listEl, indent) ==
    LET isOrdered == listEl.tag = "ol"
        items == SelectSeq(listEl.kids, LAMBDA k : k.tag = "li")
        marker(n) == IF isOrdered THEN NumStr(n) \o <<".">> ELSE <<"-">>
    IN  <<"\n">> \o
        Flatten([n \in 1..Len(items) |->
                    processListItem(items[n], indent, marker(n))])

\* processListItem(li, indent, marker): a child that is no list is itself
\* handed to extractTextContent as the element, so only what lies under that
\* child is extracted (a text node has no child nodes)
processListItem(li, indent, marker) ==
    LET prefix == Repeat(<<" ", " ">>, indent)
        isList(k) == li.kids[k].tag \in {"ul", "ol"}
        textParts ==
            Flatten([k \in 1..Len(li.kids) |->
                        IF isList(k) THEN <<>>
                        ELSE extractTextContent(li.kids[k], TRUE, indent)])
        nestedLists ==
            Flatten([k \in 1..Len(li.kids) |->
                        IF isList(k)
                        THEN processListElement(li.kids[k], indent + 1)
                        ELSE <<>>])
    IN  prefix \o marker \o <<" ">> \o Trim(textParts) \o <<"\n">>
            \o nestedLists

(***************************************************************************)
(* Inputs of the extractor: page fragments under a root container          *)
(***************************************************************************)
MaxItems == 2
MaxListDepth == 2

Label(n) == <<"a", "b", "c", "d", "e", "f">>[n]

\* The body of the n-th item: a bare text node, or the text in a paragraph
ItemBody(style, n) ==
    IF style = "text" THEN <<Txt(<<Label(n)>>)>>
    ELSE <<El("p", <<Txt(<<Label(n)>>)>>)>>

\* Lists of depth up to d; the first item may hold one nested list, either
\* directly under the <li> or inside a wrapper element of the <li>
RECURSIVE ListTrees(_, _, _)
ListTrees(d, style, wrappers) ==
    LET nests == {<<>>} \cup
                 (IF d = 0 THEN {}
                  ELSE LET sub == ListTrees(d - 1, style, wrappers)
                       IN  {<<l>> : l \in sub} \cup
                           {<<El(w, <<l>>)>> : w \in wrappers, l \in sub})
    IN  {El(kind, [n \in 1..cnt |->
                     El("li", ItemBody(style, n) \o
                              (IF n = 1 THEN nest ELSE <<>>))]) :
            kind \in {"ul", "ol"}, cnt \in 1..MaxItems, nest \in nests}

DirectListTrees == ListTrees(MaxListDepth, "text", {}) \cup
                   ListTrees(MaxListDepth, "p", {})
WrappedListTrees == ListTrees(MaxListDepth, "p", {"div"})

CodeTexts ==
    {<<"a">>, <<"a", "\n", "b">>, <<"a", "\n", "\n", "b">>,
     <<"a", "\n", "\n", "\n", "b">>, <<" ", "a", "\n">>,
     <<"a", BT, "b">>, <<"*", "a", "*">>}

PreTrees ==
    {El("pre", <<CodeEl(c, <<Txt(t)>>)>>) :
        c \in {<<>>, <<"hljs", "language-py">>}, t \in CodeTexts}
    \cup {El("pre", <<Txt(t)>>) : t \in CodeTexts}

\* Text "X" inside a non-content element, at several places of the page
Secret(nc) == El(nc, <<Txt(<<"X">>)>>)
SecretTrees ==
    UNION {
        {Secret(nc),
         El("div", <<Txt(<<"a">>), Secret(nc)>>),
         El("p", <<Secret(nc), Txt(<<"a">>)>>),
         El("strong", <<Secret(nc)>>),
         El("h2", <<Txt(<<"a">>), Secret(nc)>>),
         El("blockquote", <<El("p", <<Txt(<<"a">>), Secret(nc)>>)>>),
         El("ul", <<El("li", <<El("p", <<Txt(<<"a">>), Secret(nc)>>)>>)>>),
         El("ul", <<El("li", <<Txt(<<"a">>), Secret(nc)>>)>>),
         El("pre", <<Secret(nc), Txt(<<"a">>)>>),
         El("pre", <<Secret(nc), CodeEl(<<>>, <<Txt(<<"a">>)>>)>>),
         El("pre", <<CodeEl(<<>>, <<Txt(<<"a">>), Secret(nc)>>)>>),
         CodeEl(<<>>, <<Txt(<<"a">>), Secret(nc)>>),
         El("table", <<El("tr", <<El("td", <<Txt(<<"a">>), Secret(nc)>>)>>)>>)}
        : nc \in NonContentTags}

Hrefs ==
    {<<>>,
     <<"h", ":", "u">>,
     <<"/", "u">>,
     JsScheme \o <<"e">>,
     <<"J", "a", "v", "a", "S", "c", "r", "i", "p", "t", ":", "e">>,
     <<"J", "A", "V", "A", "S", "C", "R", "I", "P", "T", ":", "e">>,
     <<" ">> \o JsScheme \o <<"e">>,
     <<"j", "a", "v", "a", ":", "e">>}

AnchorTrees ==
    UNION {
        {Anchor(h, <<Txt(<<"t">>)>>),
         El("p", <<Txt(<<"a">>), Anchor(h, <<Txt(<<"t">>)>>)>>),
         El("ul", <<El("li", <<El("p", <<Anchor(h, <<Txt(<<"t">>)>>)>>)>>)>>),
         El("strong", <<Anchor(h, <<El("em", <<Txt(<<"t">>)>>)>>)>>)}
        : h \in Hrefs}

\* Header cells Name, Age and one data row Ann, 30
NameAgeTable ==
    El("table",
       <<El("tr", <<El("th", <<Txt(<<"N", "a", "m", "e">>)>>), El("th", <<Txt(<<"A", "g", "e">>)>>)>>),
         El("tr", <<El("td", <<Txt(<<"A", "n", "n">>)>>), El("td", <<Txt(<<"3", "0">>)>>)>>)>>)

TableTrees ==
    {NameAgeTable,
     El("table",
        <<El("tr", <<El("th", <<Txt(<<"N">>)>>), El("th", <<Txt(<<"A">>)>>)>>),
          El("tr", <<El("td", <<Txt(<<"n">>)>>), El("td", <<Txt(<<"3">>)>>)>>)>>),
     El("table", <<El("tbody", <<El("tr", <<El("td", <<Txt(<<" ", "n">>)>>)>>)>>)>>),
     El("table", <<>>)}

OtherTrees ==
    {Txt(<<"a">>), El("br", <<>>), El("hr", <<>>),
     El("p", <<Txt(<<"a">>), El("br", <<>>), Txt(<<"b">>)>>),
     El("h1", <<>>), El("h3", <<Txt(<<" ", "a">>)>>),
     El("li", <<El("em", <<Txt(<<"a">>)>>)>>),
     El("span", <<El("i", <<Txt(<<"a">>)>>), El("b", <<Txt(<<"b">>)>>)>>),
     [El("img", <<>>) EXCEPT !.alt = <<"p">>, !.src = <<"/", "s">>],
     El("img", <<>>),
     El("blockquote", <<El("p", <<Txt(<<"a">>)>>), El("p", <<Txt(<<"b">>)>>)>>)}

Fragments ==
    DirectListTrees \cup WrappedListTrees \cup PreTrees \cup SecretTrees
        \cup AnchorTrees \cup TableTrees \cup OtherTrees

\* The root handed to the extractor: a container around one fragment, alone
\* or after a paragraph
ExtInputs ==
    {El("div", <<f>>) : f \in Fragments} \cup
    {El("div", <<El("p", <<Txt(<<"z">>)>>), f>>) :
        f \in PreTrees \cup TableTrees \cup OtherTrees} \cup
    {NullRoot, El("div", <<>>), El("div", <<Anchor(<<>>, <<>>)>>)}

ExtIdle == tree = El("div", <<>>) /\ md = <<>> /\ extPc = "idle"

ExtInit == tree \in ExtInputs /\ md = <<>> /\ extPc = "start"

\* getMessageContent's call: extractTextContent(el), no context
Extract ==
    /\ extPc = "start"
    /\ md' = extractTextContent(tree, FALSE, 0)
    /\ extPc' = "extracted"
    /\ UNCHANGED <<tree, sanVars, renVars, bgVars, pageVars>>

(***************************************************************************)
(* renderMarkdown (viewer)                                                 *)
(***************************************************************************)
\* \w of the regular expressions
WordChars ==
    {"a", "b", "c", "d", "e", "f", "g", "h", "i", "j", "k", "l", "m", "n",
     "o", "p", "q", "r", "s", "t", "u", "v", "w", "x", "y", "z",
     "A", "B", "C", "D", "E", "F", "G", "H", "I", "J", "K", "L", "M", "N",
     "O", "P", "Q", "R", "S", "T", "U", "V", "W", "X", "Y", "Z",
     "0", "1", "2", "3", "4", "5", "6", "7", "8", "9", "_"}
DigitChars == {"0", "1", "2", "3", "4", "5", "6", "7", "8", "9"}

\* The placeholders `\x00CB_${idx}\x00` and `\x00IC_${idx}\x00`, one token each
CBToks == <<"\\x00CB_0\\x00", "\\x00CB_1\\x00", "\\x00CB_2\\x00",
            "\\x00CB_3\\x00", "\\x00CB_4\\x00", "\\x00CB_5\\x00">>
ICToks == <<"\\x00IC_0\\x00", "\\x00IC_1\\x00", "\\x00IC_2\\x00",
            "\\x00IC_3\\x00", "\\x00IC_4\\x00", "\\x00IC_5\\x00",
            "\\x00IC_6\\x00", "\\x00IC_7\\x00">>
CBTok(idx) == CBToks[idx + 1]
ICTok(idx) == ICToks[idx + 1]
IsCBTok(c) == \E k \in 1..Len(CBToks) : CBToks[k] = c
IsICTok(c) == \E k \in 1..Len(ICToks) : ICToks[k] = c
CBIdx(c) == (CHOOSE k \in 1..Len(CBToks) : CBToks[k] = c) - 1
ICIdx(c) == (CHOOSE k \in 1..Len(ICToks) : ICToks[k] = c) - 1

Fence3 == <<BT, BT, BT>>
Plaintext == <<"plaintext">>

\* Length of the longest run of characters of S in s starting at position p
RECURSIVE RunLen(_, _, _)
RunLen(s, p, S) ==
    IF p <= Len(s) /\ s[p] \in S THEN 1 + RunLen(s, p + 1, S) ELSE 0

\* Length of the longest run of characters outside S starting at position p
RECURSIVE RunLenNot(_, _, _)
RunLenNot(s, p, S) ==
    IF p <= Len(s) /\ s[p] \notin S THEN 1 + RunLenNot(s, p + 1, S) ELSE 0

\* The first position >= p where s holds pat, or 0
FindFrom(s, pat, p) ==
    LET hits == {k \in p..Len(s) : StartsWithAt(s, pat, k)}
    IN  IF hits = {} THEN 0 ELSE CHOOSE k \in hits : \A j \in hits : k <= j

\* One match of /```(\w*)\n([\s\S]*?)```/ starting exactly at position p
FenceMatch(s, p) ==
    LET q == p + 3 + RunLen(s, p + 3, WordChars)       \* where \n must be
        e == IF q <= Len(s) THEN FindFrom(s, Fence3, q + 1) ELSE 0
    IN  IF StartsWithAt(s, Fence3, p) /\ q <= Len(s) /\ s[q] = "\n" /\ e > 0
        THEN [ok |-> TRUE, lang |-> SubSeq(s, p + 3, q - 1),
              code |-> SubSeq(s, q + 1, e - 1), next |-> e + 3]
        ELSE [ok |-> FALSE, lang |-> <<>>, code |-> <<>>, next |-> p + 1]

\* A bug the fence step could have: the code is kept with its trailing
\* whitespace
RECURSIVE FenceScanNoTrim(_, _, _, _)
FenceScanNoTrim(s, p, acc, cbs) ==
    IF p > Len(s) THEN [text |-> acc, codeBlocks |-> cbs]
    ELSE LET m == FenceMatch(s, p)
         IN  IF m.ok
             THEN FenceScanNoTrim(s, m.next, Append(acc, CBTok(Len(cbs))),
                      Append(cbs, [language |-> IF m.lang = <<>> THEN Plaintext
                                                ELSE m.lang,
                                   code |-> m.code]))
             ELSE FenceScanNoTrim(s, p + 1, Append(acc, s[p]), cbs)

\* raw.replace(/```(\w*)\n([\s\S]*?)```/g, ...), lines 317-321: scan from
\* position p with the text and the code blocks built so far
RECURSIVE FenceScan(_, _, _, _)
FenceScan(s, p, acc, cbs) ==
    IF p > Len(s) THEN [text |-> acc, codeBlocks |-> cbs]
    ELSE LET m == FenceMatch(s, p)
         IN  IF m.ok
             THEN FenceScan(s, m.next, Append(acc, CBTok(Len(cbs))),
                      Append(cbs, [language |-> IF m.lang = <<>> THEN Plaintext
                                                ELSE m.lang,
                                   code |-> TrimEnd(m.code)]))
             ELSE FenceScan(s, p + 1, Append(acc, s[p]), cbs)

\* One match of /`([^`\n]+)`/ starting exactly at position p
InlineCodeMatch(s, p) ==
    LET r == RunLenNot(s, p + 1, {BT, "\n"})
        q == p + 1 + r
    IN  IF p <= Len(s) /\ s[p] = BT /\ r >= 1 /\ q <= Len(s) /\ s[q] = BT
        THEN [ok |-> TRUE, code |-> SubSeq(s, p + 1, q - 1), next |-> q + 1]
        ELSE [ok |-> FALSE, code |-> <<>>, next |-> p + 1]

\* text.replace(/`([^`\n]+)`/g, ...), lines 325-329
RECURSIVE InlineCodeScan(_, _, _, _)
InlineCodeScan(s, p, acc, ics) ==
    IF p > Len(s) THEN [text |-> acc, inlineCodes |-> ics]
    ELSE LET m == InlineCodeMatch(s, p)
         IN  IF m.ok
             THEN InlineCodeScan(s, m.next, Append(acc, ICTok(Len(ics))),
                                 Append(ics, m.code))
             ELSE InlineCodeScan(s, p + 1, Append(acc, s[p]), ics)

\* escapeHtml: the innerHTML of a text node
EscapeChar(c) ==
    IF c = "&" THEN "&amp;"
    ELSE IF c = "<" THEN "&lt;"
    ELSE IF c = ">" THEN "&gt;"
    ELSE c
escapeHtml(t) == [k \in 1..Len(t) |-> EscapeChar(t[k])]

\* html.replace(/\x00IC_(\d+)\x00/g, ...), lines 499-501
RestoreInlineCode(h, ics) ==
    Flatten([k \in 1..Len(h) |->
                IF IsICTok(h[k])
                THEN <<"<code>">> \o escapeHtml(ics[ICIdx(h[k]) + 1])
                         \o <<"</code>">>
                ELSE <<h[k]>>])

\* html.replace(/\*\*(.+?)\*\*/g, '<strong>$1</strong>'), line 504
RECURSIVE BoldScan(_, _)
BoldScan(s, p) ==
    IF p > Len(s) THEN <<>>
    ELSE LET e == IF StartsWithAt(s, <<"*", "*">>, p)
                  THEN FindFrom(s, <<"*", "*">>, p + 3) ELSE 0
         IN  IF e > 0
             THEN <<"<strong>">> \o SubSeq(s, p + 2, e - 1) \o <<"</strong>">>
                      \o BoldScan(s, e + 2)
             ELSE <<s[p]>> \o BoldScan(s, p + 1)

\* html.replace(/(?<!\*)\*([^*]+?)\*(?!\*)/g, '<em>$1</em>'), line 505
RECURSIVE ItalicScan(_, _)
ItalicScan(s, p) ==
    IF p > Len(s) THEN <<>>
    ELSE LET e == p + 1 + RunLenNot(s, p + 1, {"*"})      \* the closing *
             ok == /\ s[p] = "*"
                   /\ (p = 1 \/ s[p - 1] # "*")
                   /\ e >= p + 2 /\ e <= Len(s)
                   /\ (e = Len(s) \/ s[e + 1] # "*")
         IN  IF ok
             THEN <<"<em>">> \o SubSeq(s, p + 1, e - 1) \o <<"</em>">>
                      \o ItalicScan(s, e + 1)
             ELSE <<s[p]>> \o ItalicScan(s, p + 1)

LinkOpen == "<a href=\""
LinkMid  == "\" target=\"_blank\" rel=\"noopener\">"

\* html.replace(/\[([^\]]+)\]\(([^)]+)\)/g, '<a href="$2" ...>$1</a>'), line 508
RECURSIVE LinkScan(_, _)
LinkScan(s, p) ==
    IF p > Len(s) THEN <<>>
    ELSE LET q  == p + 1 + RunLenNot(s, p + 1, {"]"})     \* the ]
             r  == q + 2 + RunLenNot(s, q + 2, {")"})     \* the )
             ok == /\ s[p] = "["
                   /\ q >= p + 2 /\ q + 1 <= Len(s) /\ s[q + 1] = "("
                   /\ r >= q + 3 /\ r <= Len(s)
         IN  IF ok
             THEN <<LinkOpen>> \o SubSeq(s, q + 2, r - 1) \o <<LinkMid>>
                      \o SubSeq(s, p + 1, q - 1) \o <<"</a>">>
                      \o LinkScan(s, r + 1)
             ELSE <<s[p]>> \o LinkScan(s, p + 1)

\* html.replace(/&lt;br&gt;/g, '<br>'), line 514
RECURSIVE BrScan(_, _)
BrScan(s, p) ==
    IF p > Len(s) THEN <<>>
    ELSE IF StartsWithAt(s, <<"&lt;", "b", "r", "&gt;">>, p)
         THEN <<"<br>">> \o BrScan(s, p + 4)
         ELSE <<s[p]>> \o BrScan(s, p + 1)

\* inlineFormat(text, inlineCodes)
inlineFormat(t, ics) ==
    LET h1 == RestoreInlineCode(escapeHtml(t), ics)
        h2 == BoldScan(h1, 1)
        h3 == ItalicScan(h2, 1)
        h4 == LinkScan(h3, 1)
    IN  BrScan(h4, 1)

\* getIndent(line): the number of leading whitespace characters
getIndent(line) == RunLen(line, 1, WS)

\* Length of the match of /^\s*[-*]\s+/ on the line, 0 for no match
BulletMatchLen(line) ==
    LET lead == RunLen(line, 1, WS)
        ws   == RunLen(line, lead + 2, WS)
    IN  IF lead + 1 <= Len(line) /\ line[lead + 1] \in {"-", "*"} /\ ws >= 1
        THEN lead + 1 + ws ELSE 0

\* Length of the match of /^\s*\d+\.\s+/ on the line, 0 for no match
NumberMatchLen(line) ==
    LET lead == RunLen(line, 1, WS)
        digs == RunLen(line, lead + 1, DigitChars)
        dot  == lead + digs + 1
        ws   == RunLen(line, dot + 1, WS)
    IN  IF digs >= 1 /\ dot <= Len(line) /\ line[dot] = "." /\ ws >= 1
        THEN dot + ws ELSE 0

isListLine(line) == BulletMatchLen(line) > 0 \/ NumberMatchLen(line) > 0

\* line.match(/^(#{1,4})\s+(.+)$/): the level and the heading text
HeadingMatch(line) ==
    LET n    == RunLen(line, 1, {"#"})
        w    == RunLen(line, n + 1, WS)
        rest == From(line, n + w + 1)
    IN  IF n >= 1 /\ n <= 4 /\ w >= 1 /\ (rest # <<>> \/ w >= 2)
        THEN [ok |-> TRUE, lvl |-> n,
              text |-> IF rest # <<>> THEN rest ELSE <<line[n + w]>>]
        ELSE [ok |-> FALSE, lvl |-> 0, text |-> <<>>]

\* /^#{1,4}\s/.test(line), the paragraph loop's heading test
HeadingStart(line) ==
    LET n == RunLen(line, 1, {"#"})
    IN  n >= 1 /\ n <= 4 /\ n + 1 <= Len(line) /\ line[n + 1] \in WS

\* /^---+$/.test(line.trim())
IsRule(line) ==
    LET t == Trim(line)
    IN  Len(t) >= 3 /\ \A k \in 1..Len(t) : t[k] = "-"

IsQuoteLine(line) == StartsWith(line, <<">", " ">>)

\* line.match(/^\x00CB_(\d+)\x00$/)
IsCBLine(line) == Len(line) = 1 /\ IsCBTok(line[1])

IsBlank(line) == Trim(line) = <<>>

\* lines 457-459: both marker patterns are removed, one after the other
StripMarkers(line) ==
    LET a == From(line, BulletMatchLen(line) + 1)
    IN  From(a, NumberMatchLen(a) + 1)

\* buildListHTML(listLines, fromIndex, inlineCodes); positions count from 1
RECURSIVE buildListHTML(_, _, _)
RECURSIVE BuildListLoop(_, _, _, _, _)
buildListHTML(ls, from, ics) ==
    IF from > Len(ls) THEN [html |-> <<>>, endIndex |-> from]
    ELSE LET baseIndent == getIndent(ls[from])
             tag  == IF NumberMatchLen(ls[from]) > 0 THEN "ol" ELSE "ul"
             body == BuildListLoop(ls, from, baseIndent, <<"<" \o tag \o ">">>, ics)
         IN  [html |-> body.html \o <<"</" \o tag \o ">">>,
              endIndex |-> body.endIndex]

\* The while loop of buildListHTML at position k with the html built so far
BuildListLoop(ls, k, baseIndent, html, ics) ==
    IF k > Len(ls) \/ getIndent(ls[k]) < baseIndent
    THEN [html |-> html, endIndex |-> k]
    ELSE IF getIndent(ls[k]) = baseIndent
    THEN LET item == html \o <<"<li>">> \o inlineFormat(StripMarkers(ls[k]), ics)
         IN  IF k + 1 <= Len(ls) /\ getIndent(ls[k + 1]) > baseIndent
             THEN LET nested == buildListHTML(ls, k + 1, ics)
                  IN  BuildListLoop(ls, nested.endIndex, baseIndent,
                                    item \o nested.html \o <<"</li>">>, ics)
             ELSE BuildListLoop(ls, k + 1, baseIndent, item \o <<"</li>">>, ics)
    ELSE LET nested == buildListHTML(ls, k, ics)
         IN  BuildListLoop(ls, nested.endIndex, baseIndent,
                           html \o nested.html, ics)

\* The number of list lines from position k on (lines 380 and 423-426)
ListRunLen(ls, k) ==
    LET stop == {j \in k..Len(ls) : ~isListLine(ls[j])}
    IN  IF stop = {} THEN Len(ls) - k + 1
        ELSE (CHOOSE j \in stop : \A m \in stop : j <= m) - k

\* parseList(lines, startIdx, inlineCodes)
parseList(ls, startIdx, ics) ==
    buildListHTML(SubSeq(ls, startIdx, startIdx + ListRunLen(ls, startIdx) - 1),
                  1, ics).html

\* The number of lines from position k on that start with "> " (lines 368-371)
QuoteRunLen(ls, k) ==
    LET stop == {j \in k..Len(ls) : ~IsQuoteLine(ls[j])}
    IN  IF stop = {} THEN Len(ls) - k + 1
        ELSE (CHOOSE j \in stop : \A m \in stop : j <= m) - k

\* The tests that end the paragraph loop, lines 391-396
EndsParagraph(pLine) ==
    \/ IsBlank(pLine)
    \/ HeadingStart(pLine)
    \/ isListLine(pLine)
    \/ IsQuoteLine(pLine)
    \/ IsRule(pLine)
    \/ IsCBLine(pLine)

\* The number of lines the paragraph loop takes from position k on
ParaRunLen(ls, k) ==
    LET stop == {j \in k..Len(ls) : EndsParagraph(ls[j])}
    IN  IF stop = {} THEN Len(ls) - k + 1
        ELSE (CHOOSE j \in stop : \A m \in stop : j <= m) - k

BrText == <<"<", "b", "r", ">">>

\* The html of a code block, lines 343-346
CodeBlockOpen == "<div class=\"code-block\"><div class=\"code-block-header\"><span class=\"code-lang\">"
CodeBlockMid  == "</span><button class=\"code-copy-btn\">Copy code</button></div><pre><code class=\"language-"
CodeBlockBody == "\">"
CodeBlockEnd  == "</code></pre></div>"
CodeBlockHtml(cb) ==
    <<CodeBlockOpen>> \o cb.language \o <<CodeBlockMid>> \o cb.language
        \o <<CodeBlockBody>> \o escapeHtml(cb.code) \o <<CodeBlockEnd>>

\* A bug the heading map could have: the tag follows the number of '#'
HeadingTagSameLevel(lvl) == <<"h1", "h2", "h3", "h4">>[lvl]

\* Map: # -> h2, ## -> h3, ### -> h3, #### -> h4
HeadingTag(lvl) == IF lvl = 1 THEN "h2" ELSE IF lvl <= 3 THEN "h3" ELSE "h4"

(***************************************************************************)
(* renderMarkdown as a state machine: the two extraction steps, one action *)
(* per kind of pass of the block loop, and the final join.  `i` is the     *)
(* number of lines consumed (the loop index), `iters` the number of passes *)
(* of the loop made so far.                                                *)
(***************************************************************************)
\* A pass that consumes nothing repeats for ever; the model follows it for
\* this many passes beyond the number of lines
MaxExtraIters == 2

NoGiven == [pre |-> <<>>, fenced |-> FALSE, lang |-> <<>>, body |-> <<>>,
            post |-> <<>>]

RenIdle ==
    /\ raw = <<>> /\ text = <<>> /\ codeBlocks = <<>> /\ inlineCodes = <<>>
    /\ lines = <<>> /\ i = 0 /\ blocks = <<>> /\ iters = 0
    /\ renPc = "idle" /\ out = <<>> /\ given = NoGiven

RenStart(r, g) ==
    /\ raw = r /\ text = <<>> /\ codeBlocks = <<>> /\ inlineCodes = <<>>
    /\ lines = <<>> /\ i = 0 /\ blocks = <<>> /\ iters = 0
    /\ renPc = "fences" /\ out = <<>> /\ given = g

\* Step 1, lines 316-321
ExtractFences ==
    /\ renPc = "fences"
    /\ LET r == FenceScan(raw, 1, <<>>, <<>>)
       IN  text' = r.text /\ codeBlocks' = r.codeBlocks
    /\ renPc' = "inline"
    /\ UNCHANGED <<raw, inlineCodes, lines, i, blocks, iters, out, given,
                   sanVars, extVars, bgVars,
                   pageVars>>

\* Step 2, lines 324-329
ExtractInlineCode ==
    /\ renPc = "inline"
    /\ LET r == InlineCodeScan(text, 1, <<>>, <<>>)
       IN  text' = r.text /\ inlineCodes' = r.inlineCodes
    /\ renPc' = "split"
    /\ UNCHANGED <<raw, codeBlocks, lines, i, blocks, iters, out, given,
                   sanVars, extVars, bgVars,
                   pageVars>>

\* Lines 332-334
SplitLines ==
    /\ renPc = "split"
    /\ lines' = SplitNL(text)
    /\ i' = 0 /\ blocks' = <<>> /\ iters' = 0
    /\ renPc' = "blocks"
    /\ UNCHANGED <<raw, text, codeBlocks, inlineCodes, out, given,
                   sanVars, extVars, bgVars,
                   pageVars>>

\* The guard of one pass of `while (i < lines.length)`
InLoop ==
    /\ renPc = "blocks"
    /\ i < Len(lines)
    /\ iters < Len(lines) + MaxExtraIters

Line == lines[i + 1]

\* What a pass leaves alone
LoopFrame ==
    /\ iters' = iters + 1
    /\ UNCHANGED <<raw, text, codeBlocks, inlineCodes, lines, renPc, out, given,
                   sanVars, extVars, bgVars,
                   pageVars>>

\* Lines 340-349
CodeBlockLine ==
    /\ InLoop
    /\ IsCBLine(Line)
    /\ blocks' = Append(blocks, CodeBlockHtml(codeBlocks[CBIdx(Line[1]) + 1]))
    /\ i' = i + 1
    /\ LoopFrame

\* Lines 352-360
HeadingLine ==
    /\ InLoop
    /\ ~IsCBLine(Line)
    /\ HeadingMatch(Line).ok
    /\ LET h   == HeadingMatch(Line)
           tag == HeadingTag(h.lvl)
       IN  blocks' = Append(blocks, <<"<" \o tag \o ">">>
                                    \o inlineFormat(h.text, inlineCodes)
                                    \o <<"</" \o tag \o ">">>)
    /\ i' = i + 1
    /\ LoopFrame

NotHeadOrCode(l) == ~IsCBLine(l) /\ ~HeadingMatch(l).ok

\* Line 363
RuleLine ==
    /\ InLoop
    /\ NotHeadOrCode(Line)
    /\ IsRule(Line)
    /\ blocks' = Append(blocks, <<"<hr>">>)
    /\ i' = i + 1
    /\ LoopFrame

\* Lines 366-374
QuoteBlock ==
    /\ InLoop
    /\ NotHeadOrCode(Line) /\ ~IsRule(Line)
    /\ IsQuoteLine(Line)
    /\ LET n      == QuoteRunLen(lines, i + 1)
           qLines == [k \in 1..n |-> From(lines[i + k], 3)]
       IN  /\ blocks' = Append(blocks, <<"<blockquote>">>
                               \o inlineFormat(Join(qLines, BrText), inlineCodes)
                               \o <<"</blockquote>">>)
           /\ i' = i + n
    /\ LoopFrame

\* Lines 377-382
ListBlock ==
    /\ InLoop
    /\ NotHeadOrCode(Line) /\ ~IsRule(Line) /\ ~IsQuoteLine(Line)
    /\ isListLine(Line)
    /\ blocks' = Append(blocks, parseList(lines, i + 1, inlineCodes))
    /\ i' = i + ListRunLen(lines, i + 1)
    /\ LoopFrame

NoBlockStart(l) ==
    /\ NotHeadOrCode(l) /\ ~IsRule(l) /\ ~IsQuoteLine(l) /\ ~isListLine(l)

\* Line 385
EmptyLine ==
    /\ InLoop
    /\ NoBlockStart(Line)
    /\ IsBlank(Line)
    /\ i' = i + 1
    /\ UNCHANGED blocks
    /\ LoopFrame

\* Lines 388-402
ParagraphBlock ==
    /\ InLoop
    /\ NoBlockStart(Line) /\ ~IsBlank(Line)
    /\ LET n         == ParaRunLen(lines, i + 1)
           paraLines == [k \in 1..n |-> lines[i + k]]
       IN  /\ blocks' = IF n > 0
                        THEN Append(blocks, <<"<p>">>
                                 \o inlineFormat(Join(paraLines, BrText), inlineCodes)
                                 \o <<"</p>">>)
                        ELSE blocks
           /\ i' = i + n
    /\ LoopFrame

\* Line 405
JoinBlocks ==
    /\ renPc = "blocks"
    /\ i >= Len(lines)
    /\ out' = Join(blocks, <<"\n">>)
    /\ renPc' = "done"
    /\ UNCHANGED <<raw, text, codeBlocks, inlineCodes, lines, i, blocks, iters,
                   given, sanVars, extVars, bgVars,
                   pageVars>>

RenNext ==
    \/ ExtractFences \/ ExtractInlineCode \/ SplitLines
    \/ CodeBlockLine \/ HeadingLine \/ RuleLine \/ QuoteBlock \/ ListBlock
    \/ EmptyLine \/ ParagraphBlock \/ JoinBlocks

(***************************************************************************)
(* Inputs of the renderer                                                  *)
(***************************************************************************)
MaxLines == 3

MdLines ==
    {<<"a">>, <<>>, <<"#", " ">>, <<"#", " ", "a">>, <<"-", "-", "-">>,
     <<">", " ", "a">>, <<"-", " ", "a">>, <<" ", " ", "1", ".", " ", "b">>,
     <<"-", " ", "1", ".", " ", "c">>, <<BT, "*", "a", "*", BT>>,
     <<"*", "*", "a", "*", "*", " ", "[", "t", "]", "(", "u", ")">>}

LineInputs ==
    {[NoGiven EXCEPT !.pre = Join(ls, <<"\n">>)] :
        ls \in UNION {[1..k -> MdLines] : k \in 1..MaxLines}}

\* A fence with text before and after it; the letters of the body occur
\* nowhere else in the input
FenceBodies ==
    {<<"x">>, <<"x", "\n">>, <<"x", " ", "\n", "\n">>,
     <<"x", BT, "z", BT, "x", "\n">>, <<"*", "x", "*", "\n">>,
     <<"*", "*", "x", "*", "*">>, <<"[", "x", "]", "(", "z", ")", "\n">>,
     <<"<", "x", ">", "&", "\n">>, <<"-", " ", "x", "\n", "#", " ", "z", "\n">>,
     <<BT, "x", "\n">>}
FencePres ==
    {<<>>, <<"a", "\n">>, <<"\n", "\n">>, <<"a", " ">>, <<">", " ">>,
     <<" ", " ">>, <<BT, "a">>, <<"-", " ", "a", "\n">>}
FencePosts ==
    {<<>>, <<"\n">>, <<"\n", "b">>, <<" ", "b">>, <<BT>>,
     <<"\n", BT, "b", BT>>}
FenceLangs == {<<>>, <<"p", "y">>}

FenceInputs ==
    [pre : FencePres, fenced : {TRUE}, lang : FenceLangs, body : FenceBodies,
     post : FencePosts]

\* The markdown text of an input
RawOf(g) ==
    IF g.fenced
    THEN g.pre \o Fence3 \o g.lang \o <<"\n">> \o g.body \o Fence3 \o g.post
    ELSE g.pre

\* One heading line of one to five '#', and two headings in a row
Hashes(n) == [k \in 1..n |-> "#"]
HeadingInputs ==
    {[NoGiven EXCEPT !.pre = Hashes(n) \o <<" ", "T">>] : n \in 1..5}
    \cup {[NoGiven EXCEPT !.pre = Hashes(3) \o <<" ", "T", "\n">>
                                    \o Hashes(2) \o <<" ", "T">>]}

\* Links whose target or text holds a double quote, markup or inline code
LinkInputs ==
    {[NoGiven EXCEPT !.pre = <<"[">> \o t \o <<"]", "(">> \o u \o <<")">>] :
        t \in {<<"t">>, <<"t", "\"">>, <<"<", "b", ">">>},
        u \in {<<"u">>, <<"u", "\"", " ", "x", "=", "\"", "y">>,
                <<"u", "\"", ">", "<", "i", ">">>, <<BT, "u", BT>>,
                <<"*", "u", "*">>}}

RenInit ==
    \E g \in LineInputs \cup FenceInputs \cup HeadingInputs \cup LinkInputs :
        RenStart(RawOf(g), g)

(***************************************************************************)
(* Background service worker: the onMessage listener, its handlers and the *)
(* IndexedDB layer they call.                                              *)
(*                                                                         *)
(* reqs is the sequence of messages received so far, each with the stage   *)
(* its handler has reached; responses[r] is the sequence of responses sent *)
(* for request r; store maps a conversation id to its record (NoRecord for *)
(* none); clock stands for new Date(); txOwner is the request whose        *)
(* readwrite transaction on the object store is live, 0 for none.          *)
(***************************************************************************)
MaxReqs == 2

ConvIds == {"c1", "c2"}

NoRecord == [id |-> "", source |-> "", title |-> <<>>, url |-> <<>>,
             messages |-> <<>>, savedAt |-> 0, updatedAt |-> 0]

\* message.conversation: absent, without id, or a scraped conversation
NullConv == [present |-> FALSE, id |-> "", source |-> "", title |-> <<>>,
             url |-> <<>>, messages |-> <<>>]
Conv(cid, ttl, msgs) ==
    [present |-> TRUE, id |-> cid, source |-> "chatgpt", title |-> ttl,
     url |-> <<"/", "c">>, messages |-> msgs]
\* A conversation scraped by the content script of src, with or without a
\* title and a url
ConvFrom(src, cid, ttl, u, msgs) ==
    [present |-> TRUE, id |-> cid, source |-> src, title |-> ttl,
     url |-> u, messages |-> msgs]
Message(c) == [role |-> "user", content |-> c,
               contentHtml |-> <<"<p>">> \o c \o <<"</p>">>]

Convs ==
    {NullConv, Conv("", <<"A">>, <<>>),
     Conv("c1", <<"A">>, <<Message(<<"a">>)>>),
     Conv("c1", <<>>, <<Message(<<"a">>), Message(<<"B">>)>>),
     Conv("c2", <<"b">>, <<Message(<<"a", "b">>)>>)}

KnownTypes == {"SAVE_CONVERSATION", "GET_STATS", "GET_ALL_CONVERSATIONS",
               "GET_CONVERSATION", "DELETE_CONVERSATION",
               "SEARCH_CONVERSATIONS"}

Msg(t, c, cid, q) == [type |-> t, conversation |-> c, id |-> cid, query |-> q]

Messages ==
    {Msg("SAVE_CONVERSATION", c, "", <<>>) : c \in Convs}
    \cup {Msg(t, NullConv, cid, <<>>) :
            t \in {"GET_CONVERSATION", "DELETE_CONVERSATION"}, cid \in {"c1"}}
    \cup {Msg("SEARCH_CONVERSATIONS", NullConv, "", <<"A", " ">>)}
    \cup {Msg(t, NullConv, "", <<>>) :
            t \in {"GET_STATS", "GET_ALL_CONVERSATIONS", "PING", ""}}

\* The stored records, most recently updated first (getAllConversations)
RECURSIVE SortByUpdated(_)
SortByUpdated(recs) ==
    IF recs = {} THEN <<>>
    ELSE LET top == CHOOSE r \in recs : \A o \in recs : o.updatedAt <= r.updatedAt
         IN  <<top>> \o SortByUpdated(recs \ {top})

getAllConversations(st) ==
    SortByUpdated({st[c] : c \in {d \in ConvIds : st[d] # NoRecord}})

\* A bug the search could have: titles and contents are compared as they are
searchConversationsAsIs(st, query) ==
    LET all == getAllConversations(st)
        q   == Trim(ToLower(query))
        hit(conv) ==
            \/ conv.title # <<>> /\ Includes(conv.title, q)
            \/ \E k \in 1..Len(conv.messages) :
                   /\ conv.messages[k].content # <<>>
                   /\ Includes(conv.messages[k].content, q)
    IN  IF q = <<>> THEN all ELSE SelectSeq(all, hit)

\* The viewer's applyFilters on the conversations it has loaded
applyFilters(loaded, searchQuery) ==
    LET q == Trim(ToLower(searchQuery))
        hit(conv) ==
            \/ conv.title # <<>> /\ Includes(ToLower(conv.title), q)
            \/ \E k \in 1..Len(conv.messages) :
                   /\ conv.messages[k].content # <<>>
                   /\ Includes(ToLower(conv.messages[k].content), q)
    IN  IF Trim(searchQuery) # <<>> THEN SelectSeq(loaded, hit)
        ELSE loaded

\* searchConversations(query) on the stored records
searchConversations(st, query) ==
    LET all == getAllConversations(st)
        q   == Trim(ToLower(query))
        hit(conv) ==
            \/ conv.title # <<>> /\ Includes(ToLower(conv.title), q)
            \/ \E k \in 1..Len(conv.messages) :
                   /\ conv.messages[k].content # <<>>
                   /\ Includes(ToLower(conv.messages[k].content), q)
    IN  IF q = <<>> THEN all ELSE SelectSeq(all, hit)

\* getStats(): totalConversations and totalMessages
RECURSIVE SumMessages(_)
SumMessages(recs) ==
    IF recs = <<>> THEN 0
    ELSE Len(Head(recs).messages) + SumMessages(Tail(recs))
getStats(st) ==
    LET all == getAllConversations(st)
    IN  [totalConversations |-> Len(all), totalMessages |-> SumMessages(all)]

\* getConversation(id), lines 193-204: request.result || null
NoConversation == [found |-> FALSE, record |-> NoRecord]
getConversation(st, id) ==
    IF st[id] # NoRecord THEN [found |-> TRUE, record |-> st[id]]
    ELSE NoConversation

\* A bug the merge could have: the stored messages are kept
ToSaveKeepsMessages(existing, conversation, now) ==
    IF existing # NoRecord
    THEN [existing EXCEPT !.updatedAt = now]
    ELSE [id |-> conversation.id, source |-> conversation.source,
          title |-> conversation.title, url |-> conversation.url,
          messages |-> conversation.messages,
          savedAt |-> now, updatedAt |-> now]

\* A bug the merge could have: the incoming conversation replaces the record
ToSaveOverwrite(existing, conversation, now) ==
    [id |-> conversation.id, source |-> conversation.source,
     title |-> conversation.title, url |-> conversation.url,
     messages |-> conversation.messages,
     savedAt |-> now, updatedAt |-> now]

\* The record saveConversation writes, lines 159-180
ToSave(existing, conversation, now) ==
    IF existing # NoRecord
    THEN [existing EXCEPT
            !.title = IF conversation.title # <<>> THEN conversation.title
                      ELSE existing.title,
            !.messages = conversation.messages,
            !.updatedAt = now,
            !.url = IF conversation.url # <<>> THEN conversation.url
                    ELSE existing.url]
    ELSE [id |-> conversation.id, source |-> conversation.source,
          title |-> conversation.title, url |-> conversation.url,
          messages |-> conversation.messages,
          savedAt |-> now, updatedAt |-> now]

\* The responses of the listener
Ok(kind) == [success |-> TRUE, error |-> "", payload |-> kind]
Fail(err) == [success |-> FALSE, error |-> err, payload |-> ""]

\* existing is getReq.result of the request's save transaction
Req(m, st, err) ==
    [msg |-> m, stage |-> st, error |-> err, existing |-> NoRecord]

BgIdle ==
    /\ dbOk = TRUE /\ reqs = <<>> /\ responses = <<>>
    /\ store = [c \in ConvIds |-> NoRecord] /\ badge = 0 /\ clock = 1
    /\ txOwner = 0

BgInit ==
    /\ dbOk \in BOOLEAN
    /\ reqs = <<>> /\ responses = <<>>
    /\ store = [c \in ConvIds |-> NoRecord] /\ badge = 0 /\ clock = 1
    /\ txOwner = 0

BgFrame == UNCHANGED <<sanVars, extVars, renVars, pageVars>>

\* The synchronous part of the listener, lines 21-69
Receive(m) ==
    /\ Len(reqs) < MaxReqs
    /\ IF m.type = ""
       THEN /\ reqs' = Append(reqs, Req(m, "ignored", ""))
            /\ responses' = Append(responses, <<>>)
       ELSE IF ~dbOk
       THEN /\ reqs' = Append(reqs, Req(m, "nodb", ""))
            /\ responses' = Append(responses,
                                   <<Fail("Database is not initialized")>>)
       ELSE IF m.type \notin KnownTypes
       THEN /\ reqs' = Append(reqs, Req(m, "ignored", ""))
            /\ responses' = Append(responses, <<>>)
       ELSE /\ reqs' = Append(reqs, Req(m, "start", ""))
            /\ responses' = Append(responses, <<>>)
    /\ UNCHANGED <<dbOk, store, badge, clock, txOwner>>
    /\ BgFrame

Stage(r, st) == r \in 1..Len(reqs) /\ reqs[r].stage = st
SetStage(r, st, err) ==
    reqs' = [reqs EXCEPT ![r] = [@ EXCEPT !.stage = st, !.error = err]]

\* handleSaveConversation, lines 74-80: the check of the conversation
SaveCheck(r) ==
    /\ Stage(r, "start")
    /\ reqs[r].msg.type = "SAVE_CONVERSATION"
    /\ LET c == reqs[r].msg.conversation
       IN  IF ~c.present \/ c.id = ""
           THEN SetStage(r, "rejected", "Invalid conversation data")
           ELSE SetStage(r, "saving", "")
    /\ UNCHANGED <<dbOk, responses, store, badge, clock, txOwner>>
    /\ BgFrame

\* A bug the storage could have: a transaction starts while another is live
CanStartTxAnyTime(owner) == TRUE

\* db.transaction(STORE_NAME, mode): IndexedDB starts a transaction on the
\* object store only when no readwrite transaction on it is live
CanStartTx(owner) == owner = 0

\* The transaction of request r is over
Release(r) == txOwner' = IF txOwner = r THEN 0 ELSE txOwner

\* saveConversation, lines 151-157: the readwrite transaction starts and
\* store.get(conversation.id) reads the existing record
SaveGet(r) ==
    /\ Stage(r, "saving")
    /\ CanStartTx(txOwner)
    /\ txOwner' = r
    /\ reqs' = [reqs EXCEPT ![r] =
                   [@ EXCEPT !.stage = "got",
                             !.existing = store[reqs[r].msg.conversation.id]]]
    /\ UNCHANGED <<dbOk, responses, store, badge, clock>>
    /\ BgFrame

\* saveConversation, lines 159-186: getReq.onsuccess merges the record read
\* with the conversation and puts it; the transaction completes
SaveTx(r) ==
    /\ Stage(r, "got")
    /\ LET c == reqs[r].msg.conversation
       IN  store' = [store EXCEPT ![c.id] = ToSave(reqs[r].existing, c, clock)]
    /\ clock' = clock + 1
    /\ Release(r)
    /\ SetStage(r, "badge", "")
    /\ UNCHANGED <<dbOk, responses, badge>>
    /\ BgFrame

\* A request of the database fails (request.onerror): the handler rejects
DbError(r) ==
    /\ \/ Stage(r, "saving") \/ Stage(r, "got")
       \/ Stage(r, "start") /\ reqs[r].msg.type # "SAVE_CONVERSATION"
    /\ Release(r)
    /\ SetStage(r, "rejected", "IDBError")
    /\ UNCHANGED <<dbOk, responses, store, badge, clock>>
    /\ BgFrame

\* deleteConversation, lines 254-265
DeleteTx(r) ==
    /\ Stage(r, "start")
    /\ reqs[r].msg.type = "DELETE_CONVERSATION"
    /\ CanStartTx(txOwner)
    /\ store' = [c \in ConvIds |->
                    IF c = reqs[r].msg.id THEN NoRecord ELSE store[c]]
    /\ SetStage(r, "badge", "")
    /\ UNCHANGED <<dbOk, responses, badge, clock, txOwner>>
    /\ BgFrame

\* updateBadge, lines 85-98: a failure inside is caught and logged
UpdateBadge(r) ==
    /\ Stage(r, "badge")
    /\ \/ /\ CanStartTx(txOwner)
          /\ badge' = getStats(store).totalConversations
       \/ UNCHANGED badge
    /\ SetStage(r, "resolved", "")
    /\ UNCHANGED <<dbOk, responses, store, clock, txOwner>>
    /\ BgFrame

\* The read-only handlers: GET_STATS, GET_ALL_CONVERSATIONS, GET_CONVERSATION,
\* SEARCH_CONVERSATIONS
ReadTx(r) ==
    /\ Stage(r, "start")
    /\ reqs[r].msg.type \in {"GET_STATS", "GET_ALL_CONVERSATIONS",
                             "GET_CONVERSATION", "SEARCH_CONVERSATIONS"}
    /\ CanStartTx(txOwner)
    /\ SetStage(r, "resolved", "")
    /\ UNCHANGED <<dbOk, responses, store, badge, clock, txOwner>>
    /\ BgFrame

\* The key of the payload a handler resolves with, lines 30-55
PayloadOf(t) ==
    IF t = "SAVE_CONVERSATION" THEN "result"
    ELSE IF t = "GET_STATS" THEN "stats"
    ELSE IF t \in {"GET_ALL_CONVERSATIONS", "SEARCH_CONVERSATIONS"}
         THEN "conversations"
    ELSE IF t = "GET_CONVERSATION" THEN "conversation"
    ELSE "none"

\* The response the .then callback sends, line 62
ThenResponse(req) == <<Ok(PayloadOf(req.msg.type))>>

\* A bug the listener could have: a rejection is logged and never answered
CatchResponseSilent(req) == <<>>

\* A bug the listener could have: the text of the error is not passed on
CatchResponseGeneric(req) == <<Fail("Request failed")>>

\* The response the .catch callback sends, lines 63-66
CatchResponse(req) == <<Fail(req.error)>>

\* handler().then(...).catch(...), lines 61-66
Respond(r) ==
    /\ \/ /\ Stage(r, "resolved")
          /\ responses' = [responses EXCEPT ![r] = @ \o ThenResponse(reqs[r])]
       \/ /\ Stage(r, "rejected")
          /\ responses' = [responses EXCEPT ![r] = @ \o CatchResponse(reqs[r])]
    /\ reqs' = [reqs EXCEPT ![r] = [@ EXCEPT !.stage = "responded"]]
    /\ UNCHANGED <<dbOk, store, badge, clock, txOwner>>
    /\ BgFrame

HandlerStep(r) ==
    \/ SaveCheck(r) \/ SaveGet(r) \/ SaveTx(r) \/ DeleteTx(r) \/ ReadTx(r)
    \/ DbError(r) \/ UpdateBadge(r) \/ Respond(r)

\* The worker with the messages it may receive
BgStep(msgs) ==
    \/ \E m \in msgs : Receive(m)
    \/ \E r \in 1..MaxReqs : HandlerStep(r)

BgNext == BgStep(Messages)

\* One message of every type, the save with and without a conversation
OneOfEachType ==
    {Msg("SAVE_CONVERSATION", NullConv, "", <<>>),
     Msg("SAVE_CONVERSATION", Conv("c1", <<"A">>, <<Message(<<"a">>)>>), "", <<>>),
     Msg("GET_CONVERSATION", NullConv, "c1", <<>>),
     Msg("DELETE_CONVERSATION", NullConv, "c1", <<>>),
     Msg("SEARCH_CONVERSATIONS", NullConv, "", <<>>),
     Msg("GET_STATS", NullConv, "", <<>>),
     Msg("GET_ALL_CONVERSATIONS", NullConv, "", <<>>),
     Msg("PING", NullConv, "", <<>>)}

(***************************************************************************)
(* sendToBackground (shared by the content scripts)                        *)
(*                                                                         *)
(* sbPc is the position of one call, sbSent the number of                  *)
(* chrome.runtime.sendMessage calls it has made, sbSends the outcomes of   *)
(* the sends that have come back.  An error message is a sequence of       *)
(* pieces of text.                                                         *)
(***************************************************************************)
NoConnection == <<"Could not establish connection">>
NoReceiver == <<"Receiving end does not exist">>

ErrorTexts ==
    {NoConnection \o <<". ">> \o NoReceiver \o <<".">>,
     <<"Error: ">> \o NoReceiver,
     <<"The message port closed before a response was received.">>,
     <<"Extension context invalidated.">>,
     <<"Invalid conversation data">>}

\* What one chrome.runtime.sendMessage call can come to: it throws, the
\* callback runs with lastError set, with no response, with a response whose
\* success is false, or with any other response
Outcomes ==
    [kind : {"throws", "lastError"}, message : ErrorTexts]
    \cup [kind : {"failure"}, message : ErrorTexts \cup {<<>>}]
    \cup [kind : {"noResponse", "response"}, message : {<<>>}]

\* sendOnce, lines 286-311: the promise resolves or rejects with an error
sendOnce(o) ==
    IF o.kind \in {"throws", "lastError"}
    THEN [resolved |-> FALSE, message |-> o.message]
    ELSE IF o.kind = "noResponse"
    THEN [resolved |-> FALSE,
          message |-> <<"No response from background service worker">>]
    ELSE IF o.kind = "failure"
    THEN [resolved |-> FALSE,
          message |-> IF o.message # <<>> THEN o.message
                      ELSE <<"Background operation failed">>]
    ELSE [resolved |-> TRUE, message |-> <<>>]

\* A bug the retry could have: every failure is retried
shouldRetryAlways(message) == TRUE

\* shouldRetry, lines 315-317
shouldRetry(message) ==
    Includes(message, NoConnection) \/ Includes(message, NoReceiver)

SbIdle == sbPc = "idle" /\ sbSent = 0 /\ sbSends = <<>>

SbFrame == UNCHANGED <<coreVars, dVars, indVars, vwVars, csVars>>

\* sendToBackground(type, data), lines 283-313: the first sendOnce()
SbCall ==
    /\ sbPc = "idle"
    /\ sbPc' = "sending"
    /\ sbSent' = sbSent + 1
    /\ UNCHANGED sbSends
    /\ SbFrame

\* The send comes back: the promise of sendOnce settles and, for the first
\* send, the .catch callback of lines 313-325 runs
SbSettle(o) ==
    /\ sbPc = "sending"
    /\ sbSends' = Append(sbSends, o)
    /\ sbPc' = IF sendOnce(o).resolved THEN "resolved"
               ELSE IF sbSent = 1 /\ shouldRetry(sendOnce(o).message)
               THEN "waiting"
               ELSE "rejected"
    /\ UNCHANGED sbSent
    /\ SbFrame

\* setTimeout(resolve, 250) then sendOnce, line 324
SbRetry ==
    /\ sbPc = "waiting"
    /\ sbPc' = "sending"
    /\ sbSent' = sbSent + 1
    /\ UNCHANGED sbSends
    /\ SbFrame

SbNext == SbCall \/ (\E o \in Outcomes : SbSettle(o)) \/ SbRetry

(***************************************************************************)
(* debounce (shared by the content scripts)                                *)
(*                                                                         *)
(* dNow is the time; timers is the set of timeouts the debounced function  *)
(* has set and that are neither cleared nor fired; dCalls are the calls of *)
(* the debounced function and dRuns the runs of the wrapped function, each *)
(* with the call whose timeout fired and the number of calls made by then. *)
(***************************************************************************)
MaxCalls == 3
MaxTime == 5
Ms == 2

DebArgs == {"x", "y"}

\* A bug debounce could have: the timeout of the call before is not cleared
debounceNoClear(pending, t) == pending \cup {t}

\* clearTimeout(timer); timer = setTimeout(..., ms), lines 239-240
debounce(pending, t) == {t}

DebIdle == dNow = 0 /\ timers = {} /\ dCalls = <<>> /\ dRuns = <<>>

DebFrame == UNCHANGED <<coreVars, sbVars, indVars, vwVars, csVars>>

\* A call of the debounced function, lines 238-241
DebouncedCall(args) ==
    /\ Len(dCalls) < MaxCalls
    /\ dCalls' = Append(dCalls, [args |-> args, at |-> dNow])
    /\ timers' = debounce(timers, [call |-> Len(dCalls) + 1, args |-> args,
                                   due |-> dNow + Ms])
    /\ UNCHANGED <<dNow, dRuns>>
    /\ DebFrame

\* A timeout fires, at its time or later: fn.apply(this, args), line 240
TimerFires(t) ==
    /\ t \in timers
    /\ t.due <= dNow
    /\ dRuns' = Append(dRuns, [call |-> t.call, args |-> t.args, at |-> dNow,
                               calls |-> Len(dCalls)])
    /\ timers' = timers \ {t}
    /\ UNCHANGED <<dNow, dCalls>>
    /\ DebFrame

\* Time passes
Tick ==
    /\ dNow < MaxTime
    /\ dNow' = dNow + 1
    /\ UNCHANGED <<timers, dCalls, dRuns>>
    /\ DebFrame

DebNext ==
    \/ \E args \in DebArgs : DebouncedCall(args)
    \/ \E t \in timers : TimerFires(t)
    \/ Tick

(***************************************************************************)
(* createSaveIndicator: the manual save                                    *)
(*                                                                         *)
(* hasOnClick tells whether the indicator was created with an onClick      *)
(* handler; clickBusy is the flag of the code; inFlight is the number of   *)
(* onClick calls that have not settled; clicks are the calls of            *)
(* doManualSave, each with the number of unsettled onClick calls it found, *)
(* whether it called onClick, how that call settled and what doManualSave  *)
(* returned.                                                               *)
(***************************************************************************)
MaxClicks == 4

\* How a call of onClick settles: it resolves with false, resolves with
\* another value, or throws or rejects
Settlements == {"false", "saved", "rejected"}

\* A bug doManualSave could have: the flag is cleared at the end of the try
\* block instead of in a finally block, so not after a rejection
BusyAfterNoFinally(how) == how = "rejected"

\* finally { clickBusy = false }, lines 396-398
BusyAfter(how) == FALSE

\* The value doManualSave returns, lines 380-395
Returned(how) == IF how = "saved" THEN "true" ELSE "false"

IndIdle ==
    hasOnClick = TRUE /\ clickBusy = FALSE /\ inFlight = 0 /\ clicks = <<>>

IndInit ==
    hasOnClick \in BOOLEAN /\ clickBusy = FALSE /\ inFlight = 0 /\ clicks = <<>>

IndFrame == UNCHANGED <<coreVars, sbVars, dVars, vwVars, csVars>>

\* doManualSave up to the await, lines 369-379, called by a click on the dot
\* or through manualSave
ManualSave ==
    /\ Len(clicks) < MaxClicks
    /\ IF ~hasOnClick \/ clickBusy
       THEN /\ clicks' = Append(clicks, [unsettled |-> inFlight,
                                        called |-> FALSE, how |-> "none",
                                        returned |-> "false"])
            /\ UNCHANGED <<clickBusy, inFlight>>
       ELSE /\ clickBusy' = TRUE
            /\ inFlight' = inFlight + 1
            /\ clicks' = Append(clicks, [unsettled |-> inFlight,
                                        called |-> TRUE, how |-> "pending",
                                        returned |-> "pending"])
    /\ UNCHANGED hasOnClick
    /\ IndFrame

\* The oldest call of doManualSave that waits for onClick
Waiting == CHOOSE k \in 1..Len(clicks) :
               /\ clicks[k].how = "pending"
               /\ \A j \in 1..(k - 1) : clicks[j].how # "pending"

\* onClick settles and doManualSave runs to its end, lines 380-398
OnClickSettles(how) ==
    /\ inFlight > 0
    /\ clicks' = [clicks EXCEPT ![Waiting] =
                     [@ EXCEPT !.how = how, !.returned = Returned(how)]]
    /\ inFlight' = inFlight - 1
    /\ clickBusy' = BusyAfter(how)
    /\ UNCHANGED hasOnClick
    /\ IndFrame

IndNext == ManualSave \/ \E how \in Settlements : OnClickSettles(how)

(***************************************************************************)
(* Viewer: loadConversations and deleteCurrentConversation                 *)
(*                                                                         *)
(* allConversations holds the ids of the conversations loaded,             *)
(* currentConversation the id of the open one ("" for null); vwReqs are    *)
(* the messages the viewer has sent, each with the stage it has reached:   *)
(* sent, handled or failed by the background worker, delivered to the      *)
(* viewer; vwStore holds the ids stored; vwDeleted the ids for which       *)
(* deleteCurrentConversation has received a successful response.           *)
(***************************************************************************)
MaxDeletes == 2

VwReq(t, cid) == [type |-> t, id |-> cid, stage |-> "sent", result |-> {}]

VwIdle ==
    /\ allConversations = {} /\ currentConversation = "" /\ loading = FALSE
    /\ vwReqs = <<>> /\ vwStore = {} /\ vwDeleted = {}

\* init(), lines 602-604: the first loadConversations() has sent its message
VwInit ==
    /\ allConversations = {} /\ currentConversation = "" /\ loading = TRUE
    /\ vwReqs = <<VwReq("GET_ALL_CONVERSATIONS", "")>>
    /\ vwStore = ConvIds /\ vwDeleted = {}

VwFrame == UNCHANGED <<coreVars, sbVars, dVars, indVars, csVars>>

VwAt(k, t, st) ==
    k \in 1..Len(vwReqs) /\ vwReqs[k].type = t /\ vwReqs[k].stage = st

VwStage(k, st) == vwReqs' = [vwReqs EXCEPT ![k].stage = st]

\* The background worker handles a message of the viewer
VwHandled(k) ==
    /\ \/ /\ VwAt(k, "GET_ALL_CONVERSATIONS", "sent")
          /\ vwReqs' = [vwReqs EXCEPT ![k].stage = "handled",
                                      ![k].result = vwStore]
          /\ UNCHANGED vwStore
       \/ /\ VwAt(k, "DELETE_CONVERSATION", "sent")
          /\ VwStage(k, "handled")
          /\ vwStore' = vwStore \ {vwReqs[k].id}
    /\ UNCHANGED <<allConversations, currentConversation, loading, vwDeleted>>
    /\ VwFrame

\* The message fails: lastError, no response or success false
VwFailed(k) ==
    /\ k \in 1..Len(vwReqs) /\ vwReqs[k].stage = "sent"
    /\ VwStage(k, "failed")
    /\ UNCHANGED <<allConversations, currentConversation, loading, vwStore,
                   vwDeleted>>
    /\ VwFrame

\* loadConversations after the await, lines 132-149; selectedId is null in
\* both calls of the viewer
LoadSettles(k) ==
    /\ \/ /\ VwAt(k, "GET_ALL_CONVERSATIONS", "handled")
          /\ allConversations' = vwReqs[k].result
       \/ /\ VwAt(k, "GET_ALL_CONVERSATIONS", "failed")
          /\ UNCHANGED allConversations
    /\ loading' = FALSE
    /\ VwStage(k, "delivered")
    /\ UNCHANGED <<currentConversation, vwStore, vwDeleted>>
    /\ VwFrame

\* A click on an item of the list, lines 211-215
OpenConversation(cid) ==
    /\ cid \in allConversations
    /\ currentConversation' = cid
    /\ UNCHANGED <<allConversations, loading, vwReqs, vwStore, vwDeleted>>
    /\ VwFrame

\* closeChat or Escape: clearCurrentConversation, lines 523-531
ClearCurrent ==
    /\ currentConversation # ""
    /\ currentConversation' = ""
    /\ UNCHANGED <<allConversations, loading, vwReqs, vwStore, vwDeleted>>
    /\ VwFrame

VwDeletes ==
    Cardinality({k \in 1..Len(vwReqs) : vwReqs[k].type = "DELETE_CONVERSATION"})

\* deleteCurrentConversation up to the await, lines 553-558
DeleteClick ==
    /\ currentConversation # ""
    /\ VwDeletes < MaxDeletes
    /\ vwReqs' = Append(vwReqs, VwReq("DELETE_CONVERSATION", currentConversation))
    /\ UNCHANGED <<allConversations, currentConversation, loading, vwStore,
                   vwDeleted>>
    /\ VwFrame

\* deleteCurrentConversation after the await, lines 559-560, with
\* loadConversations up to its await, lines 124-132
DeleteSettles(k) ==
    /\ VwAt(k, "DELETE_CONVERSATION", "handled")
    /\ currentConversation' = ""
    /\ vwDeleted' = vwDeleted \cup {vwReqs[k].id}
    /\ IF loading
       THEN /\ VwStage(k, "delivered")
            /\ UNCHANGED loading
       ELSE /\ loading' = TRUE
            /\ vwReqs' = Append([vwReqs EXCEPT ![k].stage = "delivered"],
                                VwReq("GET_ALL_CONVERSATIONS", ""))
    /\ UNCHANGED <<allConversations, vwStore>>
    /\ VwFrame

\* The delete failed: the catch of lines 561-564
DeleteRejected(k) ==
    /\ VwAt(k, "DELETE_CONVERSATION", "failed")
    /\ VwStage(k, "delivered")
    /\ UNCHANGED <<allConversations, currentConversation, loading, vwStore,
                   vwDeleted>>
    /\ VwFrame

VwNext ==
    \/ \E k \in 1..Len(vwReqs) : VwHandled(k)
    \/ \E k \in 1..Len(vwReqs) : VwFailed(k)
    \/ \E k \in 1..Len(vwReqs) : LoadSettles(k)
    \/ \E k \in 1..Len(vwReqs) : DeleteSettles(k)
    \/ \E k \in 1..Len(vwReqs) : DeleteRejected(k)
    \/ \E cid \in ConvIds : OpenConversation(cid)
    \/ ClearCurrent
    \/ DeleteClick

(***************************************************************************)
(* Content scripts (ChatGPT and Claude): the triggers of a save            *)
(*                                                                         *)
(* site is the script that runs; path holds the parts of                   *)
(* window.location.pathname; els holds, for every message element of the   *)
(* page, the text extractTextContent returns for it; inited tells whether  *)
(* init() has run; armed holds the timers that are set; debounced is the   *)
(* set of timeouts of debouncedSave; lastSent is the last                  *)
(* SAVE_CONVERSATION message passed to sendToBackground, with the path and *)
(* the elements of the page it was scraped from.                           *)
(***************************************************************************)
MaxEls == 1

\* Path parts of more than eight characters; those that begin with eight
\* characters of [a-f0-9-]; those that begin like a UUID
LongParts == {"abcdef123456", "01234567-89ab-cdef"}
HexParts == {"abcdef123456", "01234567-89ab-cdef"}
UuidParts == {"01234567-89ab-cdef"}

Paths == {<<>>, <<"c", "abcdef123456">>, <<"chat", "01234567-89ab-cdef">>}

\* The text of a message element: blank, one character, or more
ElTexts == {<<" ">>, <<"a">>, <<" ", "h", "i">>}
GivenEls(texts) == UNION {[1..n -> texts] : n \in 0..MaxEls}

\* isConversationPage: part_003 lines 77-82, claude.js lines 20-25
isConversationPage(s, p) ==
    IF s = "chatgpt"
    THEN Len(p) >= 2 /\ p[1] \in {"c", "g", "chat"}
    ELSE \/ \E k \in 1..(Len(p) - 1) : p[k] = "chat" /\ p[k + 1] \in HexParts
         \/ \E k \in 1..Len(p) : p[k] \in UuidParts

\* generateId(source, url), part_002 lines 247-278: the first long part of
\* the path, or else a hash of source and url
generateId(source, p) ==
    LET long == {k \in 1..Len(p) : p[k] \in LongParts}
    IN  IF long # {}
        THEN <<source, "_", p[CHOOSE k \in long : \A o \in long : k <= o]>>
        ELSE <<source, "_", "hash">> \o p

\* window.location.href
Href(p) == <<"https://host">> \o p

\* A bug the scraper could have: the text is not trimmed
ContentOfRaw(s, t) == t

\* The text a message is saved with, or <<>> when the element is skipped:
\* part_003 lines 255-256, claude.js lines 209-210
ContentOf(s, t) ==
    IF s = "claude" /\ Len(Trim(t)) < 2 THEN <<>> ELSE Trim(t)

\* The forEach of scrapeConversation: part_003 lines 251-265, claude.js lines
\* 202-217 (which skips a text equal to the one before)
RECURSIVE ScrapeMessages(_, _, _, _)
ScrapeMessages(s, e, k, acc) ==
    IF k > Len(e) THEN acc
    ELSE LET content == ContentOf(s, e[k])
             lastRole == IF acc = <<>> THEN "" ELSE acc[Len(acc)].role
             role == IF lastRole = "user" THEN "assistant" ELSE "user"
             skip == \/ content = <<>>
                     \/ /\ s = "claude" /\ acc # <<>>
                        /\ acc[Len(acc)].content = content
         IN  ScrapeMessages(s, e, k + 1,
                 IF skip THEN acc
                 ELSE Append(acc, [role |-> role, content |-> content,
                                   index |-> k - 1]))

\* scrapeConversation: part_003 lines 242-276, claude.js lines 190-233
scrapeConversation(s, p, e) ==
    IF ~isConversationPage(s, p) THEN NullConv
    ELSE IF Len(e) = 0 THEN NullConv
    ELSE IF ScrapeMessages(s, e, 1, <<>>) = <<>> THEN NullConv
    ELSE [present |-> TRUE, id |-> generateId(s, p), source |-> s,
          title |-> <<"Untitled Chat">>, url |-> Href(p),
          messages |-> ScrapeMessages(s, e, 1, <<>>)]

NoSend == [conversation |-> NullConv, path |-> <<>>, els |-> <<>>]

\* A bug init could have: no periodic save
InitTimersNoPeriodic == {"first", "urlCheck"}

\* The timers init() sets, claude.js lines 305-308: the url check, the
\* periodic save and the first save
InitTimers == {"first", "urlCheck", "periodic"}

CsIdle ==
    /\ site = "chatgpt" /\ path = <<>> /\ els = <<>> /\ inited = FALSE
    /\ armed = {} /\ currentConvId = <<>> /\ debounced = {}
    /\ lastSent = NoSend

\* The content script is loaded in a page
CsInit ==
    /\ site \in {"chatgpt", "claude"} /\ path \in Paths /\ els = <<>>
    /\ inited = FALSE /\ armed = {} /\ currentConvId = <<>>
    /\ debounced = {} /\ lastSent = NoSend

CsFrame == UNCHANGED <<coreVars, sbVars, dVars, indVars, vwVars>>

\* saveCurrentConversation, claude.js lines 235-249, and onClick, lines
\* 287-291: the conversation scraped now is sent, or nothing is
SaveCurrent ==
    LET conversation == scrapeConversation(site, path, els)
    IN  IF ~conversation.present \/ Len(conversation.messages) = 0
        THEN UNCHANGED lastSent
        ELSE lastSent' = [conversation |-> conversation, path |-> path,
                          els |-> els]

\* init(), claude.js lines 285-315
Initialise ==
    /\ ~inited
    /\ inited' = TRUE
    /\ armed' = InitTimers
    /\ currentConvId' = generateId(site, path)
    /\ UNCHANGED <<site, path, els, debounced, lastSent>>
    /\ CsFrame

\* The page navigates
Navigate(p) ==
    /\ path' = p
    /\ UNCHANGED <<site, els, inited, armed, currentConvId, debounced, lastSent>>
    /\ CsFrame

\* The page changes its message elements; when the script observes and an
\* element was added, the observer calls debouncedSave, claude.js lines
\* 257-272
Mutation(e, added) ==
    /\ els' = e
    /\ debounced' = IF inited /\ added
                    THEN debounce(debounced, "debouncedSave")
                    ELSE debounced
    /\ UNCHANGED <<site, path, inited, armed, currentConvId, lastSent>>
    /\ CsFrame

\* The timeout of debouncedSave fires
DebouncedSave ==
    /\ \E t \in debounced : debounced' = debounced \ {t}
    /\ SaveCurrent
    /\ UNCHANGED <<site, path, els, inited, armed, currentConvId>>
    /\ CsFrame

\* setTimeout(saveCurrentConversation, 2600), claude.js line 308
FirstSave ==
    /\ "first" \in armed
    /\ armed' = armed \ {"first"}
    /\ SaveCurrent
    /\ UNCHANGED <<site, path, els, inited, currentConvId, debounced>>
    /\ CsFrame

\* setInterval(saveCurrentConversation, 15000), claude.js line 306
PeriodicSave ==
    /\ "periodic" \in armed
    /\ SaveCurrent
    /\ UNCHANGED <<site, path, els, inited, armed, currentConvId, debounced>>
    /\ CsFrame

\* checkUrlChange, claude.js lines 277-283, every two seconds
CheckUrlChange ==
    /\ "urlCheck" \in armed
    /\ IF generateId(site, path) = currentConvId
       THEN UNCHANGED <<currentConvId, armed>>
       ELSE /\ currentConvId' = generateId(site, path)
            /\ armed' = armed \cup {"urlSave"}
    /\ UNCHANGED <<site, path, els, inited, debounced, lastSent>>
    /\ CsFrame

\* setTimeout(saveCurrentConversation, 2200), claude.js line 282
UrlSave ==
    /\ "urlSave" \in armed
    /\ armed' = armed \ {"urlSave"}
    /\ SaveCurrent
    /\ UNCHANGED <<site, path, els, inited, currentConvId, debounced>>
    /\ CsFrame

\* beforeunload, visibilitychange to hidden, or a click on the indicator
PageHiddenOrClick ==
    /\ inited
    /\ SaveCurrent
    /\ UNCHANGED <<site, path, els, inited, armed, currentConvId, debounced>>
    /\ CsFrame

\* The content script in a page whose message elements carry texts
CsStep(texts) ==
    \/ Initialise
    \/ \E p \in Paths : Navigate(p)
    \/ \E e \in GivenEls(texts), added \in BOOLEAN : Mutation(e, added)
    \/ DebouncedSave
    \/ FirstSave
    \/ PeriodicSave
    \/ CheckUrlChange
    \/ UrlSave
    \/ PageHiddenOrClick

CsNext == CsStep(ElTexts)

PageIdle == SbIdle /\ DebIdle /\ IndIdle /\ VwIdle /\ CsIdle

\* The saves two content scripts send for one conversation, an invalid save
\* of each kind, and a delete and a read of that conversation
SaveMessages ==
    {Msg("SAVE_CONVERSATION", NullConv, "", <<>>),
     Msg("SAVE_CONVERSATION", Conv("", <<"A">>, <<>>), "", <<>>),
     Msg("SAVE_CONVERSATION",
         ConvFrom("chatgpt", "c1", <<"A">>, <<"/", "c">>, <<Message(<<"a">>)>>),
         "", <<>>),
     Msg("SAVE_CONVERSATION",
         ConvFrom("claude", "c1", <<>>, <<>>,
                  <<Message(<<"a">>), Message(<<"B">>)>>),
         "", <<>>),
     Msg("DELETE_CONVERSATION", NullConv, "c1", <<>>),
     Msg("GET_CONVERSATION", NullConv, "c1", <<>>)}

(***************************************************************************)
(* Specifications                                                          *)
(***************************************************************************)
\* The viewer renders the stored markdown of a message that has no
\* contentHtml: renderMarkdown(msg.content) on the extractor's output
RenderExtracted ==
    /\ extPc = "extracted"
    /\ renPc = "idle"
    /\ raw' = md
    /\ renPc' = "fences"
    /\ extPc' = "rendered"
    /\ UNCHANGED <<tree, md, text, codeBlocks, inlineCodes, lines, i, blocks,
                   iters, out, given, sanVars, bgVars, pageVars>>

ExtNext == Extract \/ RenderExtracted \/ RenNext

CoreIdle == SanIdle /\ ExtIdle /\ RenIdle /\ BgIdle

\* sanitizeHTML on every input fragment
InitSanitize == SanInit /\ ExtIdle /\ RenIdle /\ BgIdle /\ PageIdle
SpecSanitize ==
    InitSanitize /\ [][Sanitize]_vars

\* renderMarkdown on every input text
InitRender == RenInit /\ SanIdle /\ ExtIdle /\ BgIdle /\ PageIdle
SpecRender ==
    InitRender /\ [][RenNext]_vars

\* extractTextContent on every input page, then renderMarkdown on its output
InitExtract == ExtInit /\ SanIdle /\ RenIdle /\ BgIdle /\ PageIdle
SpecExtract ==
    InitExtract /\ [][ExtNext]_vars

\* The background worker
InitBg == BgInit /\ SanIdle /\ ExtIdle /\ RenIdle /\ PageIdle
SpecBg ==
    InitBg /\ [][BgNext]_vars

\* The background worker, where the event loop runs every pending callback
\* and every database request completes, with success or with an error
SpecBgFair ==
    /\ InitBg /\ [][BgStep(OneOfEachType)]_vars
    /\ \A r \in 1..MaxReqs : WF_vars(HandlerStep(r))

\* The background worker receiving the saves of one conversation, where the
\* event loop runs every pending callback and every request completes
InitSave == BgInit /\ SanIdle /\ ExtIdle /\ RenIdle /\ PageIdle
SpecSave ==
    /\ InitSave /\ [][BgStep(SaveMessages)]_vars
    /\ \A r \in 1..MaxReqs : WF_vars(HandlerStep(r))

\* One call of sendToBackground
InitSend == SbIdle /\ CoreIdle /\ DebIdle /\ IndIdle /\ VwIdle /\ CsIdle
SpecSend ==
    InitSend /\ [][SbNext]_vars

\* The calls of one debounced function
InitDebounce == DebIdle /\ CoreIdle /\ SbIdle /\ IndIdle /\ VwIdle /\ CsIdle
SpecDebounce ==
    InitDebounce /\ [][DebNext]_vars

\* The manual saves of one save indicator
InitIndicator == IndInit /\ CoreIdle /\ SbIdle /\ DebIdle /\ VwIdle /\ CsIdle
SpecIndicator ==
    InitIndicator /\ [][IndNext]_vars

\* The viewer with the conversations stored
InitViewer == VwInit /\ CoreIdle /\ SbIdle /\ DebIdle /\ IndIdle /\ CsIdle
SpecViewer ==
    InitViewer /\ [][VwNext]_vars

\* A content script in a page
InitContent == CsInit /\ CoreIdle /\ SbIdle /\ DebIdle /\ IndIdle /\ VwIdle
SpecContent ==
    InitContent /\ [][CsNext]_vars

\* A content script in a page whose message elements are blank or hold text,
\* where init runs and every timer that is set fires; the timeout of
\* debouncedSave is cleared by every observed mutation and may never fire
SpecContentFair ==
    /\ InitContent /\ [][CsStep({<<" ">>, <<" ", "h", "i">>})]_vars
    /\ WF_vars(Initialise) /\ WF_vars(FirstSave) /\ WF_vars(PeriodicSave)
    /\ WF_vars(CheckUrlChange) /\ WF_vars(UrlSave)

(***************************************************************************)
(* Claims                                                                  *)
(***************************************************************************)

\* C1: every element of the fragment sanitizeHTML returns, at any depth, has
\* a tag of the allow-list and carries only attributes of the allow-list.
C1_SanitizedOutputAllowed ==
    sanPc = "done" =>
        \A e \in ElementsOf(sanOut) :
            /\ e.tag \in ALLOWED_TAGS
            /\ \A a \in e.attrs : a[1] \in ALLOWED_ATTRS

\* C2: every pass of the block loop of renderMarkdown consumes at least one
\* line (so the passes made never outnumber the lines consumed), and every
\* call of buildListHTML on a run of list lines returns an endIndex greater
\* than its fromIndex.
C2_EveryPassConsumes ==
    /\ iters <= i
    /\ renPc = "blocks" =>
          \A k \in 1..Len(lines) :
              isListLine(lines[k]) =>
                  LET run == SubSeq(lines, k, k + ListRunLen(lines, k) - 1)
                  IN  \A f \in 1..Len(run) :
                          buildListHTML(run, f, inlineCodes).endIndex > f

\* The code block the renderer owes to the fence of a fenced input
GivenCodeBlock ==
    [language |-> IF given.lang = <<>> THEN Plaintext ELSE given.lang,
     code |-> TrimEnd(given.body)]
BodyLetters == {"x", "z"}
HasBodyLetter(s) == \E k \in 1..Len(s) : s[k] \in BodyLetters
FenceAlone ==
    /\ given.pre = <<>> \/ given.pre[Len(given.pre)] = "\n"
    /\ given.post = <<>> \/ given.post[1] = "\n"

\* C3: for an input holding a fence (an opening line of three backticks and
\* an optional language word, a body, three closing backticks), fences are
\* extracted before inline code: the whole fence is replaced by one
\* placeholder, its code is the body with only the trailing whitespace
\* trimmed, no inline-code span is made of the body, and in the output the
\* body occurs only as the escaped text of its code block, which is there
\* when the fence stands alone on its lines; no backtick, asterisk or bracket
\* of the body becomes inline code, emphasis or a link.
C3_FenceBodyExact ==
    given.fenced =>
        /\ renPc # "fences" => codeBlocks = <<GivenCodeBlock>>
        /\ renPc = "inline" => text = given.pre \o <<CBTok(0)>> \o given.post
        /\ \A k \in 1..Len(inlineCodes) : ~HasBodyLetter(inlineCodes[k])
        /\ \A k \in 1..Len(blocks) :
               \/ blocks[k] = CodeBlockHtml(GivenCodeBlock)
               \/ ~HasBodyLetter(blocks[k])
        /\ (renPc = "done" /\ FenceAlone) =>
               /\ \E k \in 1..Len(blocks) : blocks[k] = CodeBlockHtml(GivenCodeBlock)
               /\ Includes(out, <<CodeBlockBody>> \o escapeHtml(TrimEnd(given.body))
                                    \o <<CodeBlockEnd>>)

\* C3, reached: a fence alone on its lines whose body holds a backtick pair
\* has been rendered
C3_Witness ==
    /\ renPc = "done" /\ given.fenced /\ FenceAlone
    /\ given.body = <<"x", BT, "z", BT, "x", "\n">>
    /\ given.pre = <<"a", "\n">>
    /\ Includes(out, <<"x", BT, "z", BT, "x", CodeBlockEnd>>)

\* The contents of the <code> elements of an html text
CodeSpans(h) ==
    {SubSeq(h, p + 1, FindFrom(h, <<"</code>">>, p) - 1) :
        p \in {q \in 1..Len(h) : h[q] = "<code>"}}

\* C4: the text inside each restored <code> element is the escaped text of
\* an inline-code span, with no markup made from it.
C4_InlineCodeVerbatim ==
    renPc = "done" =>
        \A c \in CodeSpans(out) :
            \E k \in 1..Len(inlineCodes) : c = escapeHtml(inlineCodes[k])

\* The page fragment under the root of the extractor's input
Fragment == IF tree.kids = <<>> THEN tree ELSE tree.kids[Len(tree.kids)]

\* The list tags an html text should hold for a list of the page
RECURSIVE ListSkeleton(_)
ListSkeleton(n) ==
    IF n.tag \in {"ul", "ol"}
    THEN <<"<" \o n.tag \o ">">>
             \o Flatten([k \in 1..Len(n.kids) |-> ListSkeleton(n.kids[k])])
             \o <<"</" \o n.tag \o ">">>
    ELSE IF n.tag = "li"
    THEN <<"<li>">>
             \o Flatten([k \in 1..Len(n.kids) |-> ListSkeleton(n.kids[k])])
             \o <<"</li>">>
    ELSE <<>>
ListTags == {"<ul>", "</ul>", "<ol>", "</ol>", "<li>", "</li>"}

\* C5: for a list whose nested lists are direct children of their items,
\* extract then render yields the same nested list structure.
C5_ListRoundTrip ==
    (renPc = "done" /\ extPc = "rendered" /\ Fragment \in DirectListTrees) =>
        SelectSeq(out, LAMBDA t : t \in ListTags) = ListSkeleton(Fragment)

\* Twice the nesting depth of every list item of the page, in document order
RECURSIVE ItemIndents(_, _)
ItemIndents(n, depth) ==
    IF n.tag = "li"
    THEN <<2 * depth>>
             \o Flatten([k \in 1..Len(n.kids) |-> ItemIndents(n.kids[k], depth + 1)])
    ELSE Flatten([k \in 1..Len(n.kids) |-> ItemIndents(n.kids[k], depth)])

\* The leading-space counts of the list-marker lines of a markdown text
MarkerIndents(m) ==
    LET ls == SelectSeq(SplitNL(m), isListLine)
    IN  [k \in 1..Len(ls) |-> getIndent(ls[k])]

\* C6: the leading-space count of every list-marker line of the output is
\* twice the nesting depth of its list item, also when a nested list sits in
\* a wrapper element of the item.
C6_IndentIsTwiceDepth ==
    (extPc # "start" /\ Fragment \in DirectListTrees \cup WrappedListTrees) =>
        MarkerIndents(md) = ItemIndents(Fragment, 0)

\* The code element of a <pre>, as the extractor picks it
PreCode(n) ==
    LET codes == QuerySelectorAll(n, {"code"})
    IN  IF codes # <<>> THEN codes[1] ELSE n

\* C7: between the fence lines of the output stands the trimmed text of the
\* code node, unchanged.
C7_CodeTextVerbatim ==
    (extPc # "start" /\ Fragment \in PreTrees) =>
        Includes(md, Fence3 \o extractCodeLanguage(PreCode(Fragment)) \o <<"\n">>
                         \o Trim(TextContent(PreCode(Fragment)))
                         \o <<"\n">> \o Fence3)

\* C8: text inside a non-content element never appears in the output.
C8_NoNonContentText ==
    extPc # "start" => \A k \in 1..Len(md) : md[k] # "X"

\* A script-scheme target: the javascript scheme, matched without regard to
\* case and after leading whitespace
IsScriptScheme(href) == StartsWith(ToLower(TrimStart(href)), JsScheme)

\* C9: no link form carrying a script-scheme target reaches the output.
C9_NoScriptLink ==
    extPc # "start" =>
        \A a \in {d \in Range(Descendants(tree)) : d.tag = "a"} :
            IsScriptScheme(a.href) =>
                ~Includes(md, <<"]", "(">> \o a.href \o <<")">>)

\* A received message of one of the six known types
Known(r) == r \in 1..Len(reqs) /\ reqs[r].msg.type \in KnownTypes

\* The responses sent so far for the known messages: never more than one;
\* without the database module it is the failure, sent at once; after the
\* handler settled it is {success: true} with the handler's payload when it
\* resolved and {success: false} with the error's text when it rejected
OneResponseSoFar ==
    \A r \in 1..Len(reqs) :
        Known(r) =>
            /\ Len(responses[r]) <= 1
            /\ \A k \in 1..Len(responses[r]) :
                   responses[r][k].success \/ responses[r][k].error # ""
            /\ ~dbOk => responses[r] = <<Fail("Database is not initialized")>>
            /\ (dbOk /\ reqs[r].stage = "responded") =>
                   /\ Len(responses[r]) = 1
                   /\ responses[r][1].success = (reqs[r].error = "")
                   /\ responses[r][1].error = reqs[r].error
                   /\ responses[r][1].success =>
                          responses[r][1].payload = PayloadOf(reqs[r].msg.type)
            /\ (dbOk /\ reqs[r].stage # "responded") => responses[r] = <<>>

\* C10: for every message of a known type the listener sends exactly one
\* response: at no time more than one, in the end one, with success true when
\* the handler resolved and success false with an error string when it
\* rejected or the database module is unavailable.
C10_ExactlyOneResponse ==
    /\ []OneResponseSoFar
    /\ \A r \in 1..MaxReqs : Known(r) ~> (Known(r) /\ Len(responses[r]) = 1)

\* C10, reached: one message answered with success, another with a failure
C10_Witness ==
    /\ Len(reqs) = 2 /\ Known(1) /\ Known(2)
    /\ reqs[1].stage = "responded" /\ reqs[2].stage = "responded"
    /\ responses[1] = <<Ok("result")>>
    /\ responses[2] = <<Fail("Invalid conversation data")>>

\* C11: when saveConversation(c) succeeds, getConversation(c.id) returns a
\* record whose messages are c.messages exactly, content and contentHtml
\* included, whether or not a record of that id was stored before.
C11_SaveThenGet ==
    [][\A r \in 1..MaxReqs :
          SaveTx(r) =>
              LET c == reqs[r].msg.conversation
                  got == getConversation(store', c.id)
              IN  got.found /\ got.record.messages = c.messages]_vars

\* C11, reached: a second save of c1 has replaced the messages of the first
C11_Witness ==
    /\ store["c1"].savedAt < store["c1"].updatedAt
    /\ store["c1"].messages = <<Message(<<"a">>), Message(<<"B">>)>>
    /\ getConversation(store, "c1").record.messages[2].contentHtml
           = <<"<p>", "B", "</p>">>

\* C12: the block-mode output of the extractor never holds three newlines
\* in a row and neither starts nor ends with a newline, and cleanMarkdown
\* leaves it unchanged.
C12_CleanOutput ==
    extPc # "start" =>
        /\ ~Includes(md, <<"\n", "\n", "\n">>)
        /\ md # <<>> => md[1] # "\n" /\ md[Len(md)] # "\n"
        /\ cleanMarkdown(md) = md

\* C12, reached: a paragraph followed by a heading, whose parts are joined
\* by three newlines before the clean-up
C12_Witness ==
    /\ extPc = "extracted"
    /\ tree = El("div", <<El("p", <<Txt(<<"z">>)>>), El("h3", <<Txt(<<" ", "a">>)>>)>>)
    /\ md = <<"z", "\n", "\n", "#", "#", "#", " ", "a">>

\* C13: a heading line with one '#' renders as h2, with two or three '#' as
\* h3 and with four '#' as h4, so `### T` and `## T` get the same tag.
C13_HeadingMap ==
    renPc = "done" =>
        /\ raw = Hashes(1) \o <<" ", "T">> => out = <<"<h2>", "T", "</h2>">>
        /\ raw = Hashes(2) \o <<" ", "T">> => out = <<"<h3>", "T", "</h3>">>
        /\ raw = Hashes(3) \o <<" ", "T">> => out = <<"<h3>", "T", "</h3>">>
        /\ raw = Hashes(4) \o <<" ", "T">> => out = <<"<h4>", "T", "</h4>">>
        /\ raw = Hashes(3) \o <<" ", "T", "\n">> \o Hashes(2) \o <<" ", "T">> =>
               out = <<"<h3>", "T", "</h3>", "\n", "<h3>", "T", "</h3>">>

\* C13, reached: `### T` followed by `## T` has been rendered
C13_Witness ==
    /\ renPc = "done"
    /\ raw = Hashes(3) \o <<" ", "T", "\n">> \o Hashes(2) \o <<" ", "T">>
    /\ Len(blocks) = 2 /\ blocks[1] = blocks[2]

\* The markdown of the Name/Age table, as the specification writes it
NameAgeMarkdown ==
    <<"|", " ", "N", "a", "m", "e", " ", "|", " ", "A", "g", "e", " ", "|", "\n">>
        \o <<"|", " ", "-", "-", "-", " ", "|", " ", "-", "-", "-", " ", "|", "\n">>
        \o <<"|", " ", "A", "n", "n", " ", "|", " ", "3", "0", " ", "|", "\n">>

\* The lines of a table's markdown: a pipe-delimited line
IsPipeLine(l) ==
    Len(l) >= 4 /\ SubSeq(l, 1, 2) = <<"|", " ">>
                /\ SubSeq(l, Len(l) - 1, Len(l)) = <<" ", "|">>
SepLineOf(n) ==
    <<"|", " ">> \o Join([k \in 1..n |-> <<"-", "-", "-">>], <<" ", "|", " ">>)
        \o <<" ", "|">>

\* C14 as stated: the tree of the Name/Age table alone extracts to the
\* markdown of the table with the newline that ends its last row.
C14_TableExtractAsStated ==
    (extPc # "start" /\ tree = El("div", <<NameAgeTable>>)) => md = NameAgeMarkdown

\* C14, amended: extractTableContent returns one pipe-delimited line per row,
\* each ended by a newline, with a `---` separator of one entry per cell of
\* the first row after the first row only (for the Name/Age table the
\* markdown the specification writes), and the extractor's block-mode output
\* for the table is that text without its trailing newline, after the text
\* of what precedes the table.
C14_TableExtract ==
    (extPc # "start" /\ Fragment \in TableTrees) =>
        LET t     == extractTableContent(Fragment)
            rows  == QuerySelectorAll(Fragment, {"tr"})
            ls    == SplitNL(t)
            cells == QuerySelectorAll(rows[1], {"th", "td"})
        IN  /\ Fragment = NameAgeTable => t = NameAgeMarkdown
            /\ rows = <<>> => t = <<>>
            /\ rows # <<>> =>
                   /\ Len(ls) = Len(rows) + 2 /\ ls[Len(ls)] = <<>>
                   /\ \A k \in 1..(Len(ls) - 1) : IsPipeLine(ls[k])
                   /\ ls[2] = SepLineOf(Len(cells))
                   /\ \A k \in 3..(Len(ls) - 1) : ls[k] # SepLineOf(Len(cells))
            /\ Len(tree.kids) = 1 => md = StripTrailNL(t)
            /\ Len(tree.kids) = 2 =>
                   md = StripTrailNL(<<"z", "\n", "\n">> \o t)

\* C14, reached: the Name/Age table has been extracted
C14_Witness ==
    /\ extPc = "extracted" /\ tree = El("div", <<NameAgeTable>>)
    /\ md \o <<"\n">> = NameAgeMarkdown

\* The queries of a search
Queries ==
    {<<>>, <<" ">>, <<"A", " ">>, <<"B">>, <<"a", "B">>, <<"x">>}

\* hay holds needle when the case of the letters is disregarded
ContainsNoCase(hay, needle) ==
    \E k \in 0..(Len(hay) - Len(needle)) :
        \A j \in 1..Len(needle) : LowerChar(hay[k + j]) = LowerChar(needle[j])

Stored == {store[c] : c \in {d \in ConvIds : store[d] # NoRecord}}

\* C15: a search returns exactly the stored conversations whose title or
\* some message content holds the trimmed query, case disregarded, each once
\* and most recently updated first; an empty or blank query returns them
\* all; applyFilters on the loaded conversations selects the same.
C15_SearchExact ==
    \A query \in Queries :
        LET res == searchConversations(store, query)
            q   == Trim(query)
            matches(conv) ==
                \/ ContainsNoCase(conv.title, q)
                \/ \E k \in 1..Len(conv.messages) :
                       ContainsNoCase(conv.messages[k].content, q)
        IN  /\ Range(res) = {conv \in Stored : matches(conv)}
            /\ Len(res) = Cardinality(Range(res))
            /\ \A a, b \in 1..Len(res) :
                   a < b => res[a].updatedAt >= res[b].updatedAt
            /\ q = <<>> => Range(res) = Stored
            /\ applyFilters(getAllConversations(store), query) = res

\* C15, reached: two conversations are stored; the query `A ` finds both, the
\* later one first, and the query `B` finds one of them
C15_Witness ==
    /\ Cardinality(Stored) = 2
    /\ Len(searchConversations(store, <<"A", " ">>)) = 2
    /\ searchConversations(store, <<"A", " ">>)[1].updatedAt
           > searchConversations(store, <<"A", " ">>)[2].updatedAt
    /\ Len(searchConversations(store, <<"B">>)) = 1

\* C16: the extractor raises (InvalidInput) for a null or undefined root,
\* and for no other input.
C16_NullRootRaises ==
    extPc # "start" => (extPc = "raised" <=> tree = NullRoot)

\* The number of occurrences of a token in an html text
Count(h, tok) == Cardinality({k \in 1..Len(h) : h[k] = tok})

\* C17: the returned html holds no placeholder token, and every fenced block
\* and every inline-code span extracted in steps 1-2 is restored in it
\* exactly once.
C17_NoPlaceholderSurvives ==
    renPc = "done" =>
        /\ \A k \in 1..Len(out) : ~IsCBTok(out[k]) /\ ~IsICTok(out[k])
        /\ Count(out, CodeBlockEnd) = Len(codeBlocks)
        /\ Count(out, "<code>") = Len(inlineCodes)

\* C18: every list line of the input is rendered as exactly one <li>,
\* whatever the indentations of the lines of its run.
C18_EveryListLineAnItem ==
    renPc = "done" =>
        Count(out, "<li>") = Cardinality({k \in 1..Len(lines) : isListLine(lines[k])})

\* C19: blank lines between list lines do not end the list region: an input
\* of list lines and blank lines between them is rendered in one list
\* element.
C19_BlankLinesKeepRegion ==
    (/\ renPc = "done"
     /\ \A k \in 1..Len(lines) : isListLine(lines[k]) \/ IsBlank(lines[k])
     /\ lines # <<>> /\ isListLine(lines[1]) /\ isListLine(lines[Len(lines)]))
        => Len(blocks) = 1

\* A list line without its own marker: the leading whitespace, the bullet or
\* the digits and dot, and the whitespace that follows
OwnMarkerRemoved(line) ==
    IF BulletMatchLen(line) > 0 THEN From(line, BulletMatchLen(line) + 1)
    ELSE From(line, NumberMatchLen(line) + 1)

\* C20: the item text of a list line at the base indent (here the first line
\* of every list region) is the line with only its own marker removed.
C20_OnlyOwnMarkerRemoved ==
    renPc = "done" =>
        \A k \in 1..Len(lines) :
            (isListLine(lines[k]) /\ (k = 1 \/ ~isListLine(lines[k - 1]))) =>
                Includes(out, <<"<li>">>
                                 \o inlineFormat(OwnMarkerRemoved(lines[k]), inlineCodes))

\* The request whose save transaction puts the record of id in this step
Putting(r, id) ==
    /\ r \in 1..Len(reqs) /\ reqs[r].stage = "got"
    /\ reqs[r].msg.conversation.id = id
    /\ reqs'[r].stage = "badge"

\* C21: over the saves of one id with no delete in between the stored record
\* keeps the id, source and savedAt of the first save; a save sets messages
\* to the incoming ones and title and url to the incoming value, or leaves
\* the stored one when the incoming value is empty; updatedAt never
\* decreases.
C21_MergeKeepsFirstSave ==
    [][\A id \in ConvIds :
          /\ (store[id] # NoRecord /\ store'[id] # NoRecord) =>
                 /\ store'[id].id = store[id].id
                 /\ store'[id].source = store[id].source
                 /\ store'[id].savedAt = store[id].savedAt
                 /\ store'[id].updatedAt >= store[id].updatedAt
          /\ \A r \in 1..MaxReqs :
                 (Putting(r, id) /\ store[id] # NoRecord) =>
                     LET c == reqs[r].msg.conversation
                     IN  /\ store'[id].messages = c.messages
                         /\ store'[id].title =
                                IF c.title = <<>> THEN store[id].title ELSE c.title
                         /\ store'[id].url =
                                IF c.url = <<>> THEN store[id].url ELSE c.url
                         /\ store'[id].updatedAt = clock
          /\ \A r \in 1..MaxReqs :
                 (Putting(r, id) /\ store[id] = NoRecord) =>
                     /\ store'[id].id = id
                     /\ store'[id].source = reqs[r].msg.conversation.source
                     /\ store'[id].savedAt = clock]_vars

\* C21, reached: the conversation saved by one content script was saved
\* again without title and url by the other; source, title and url are those
\* of the first save and the messages those of the second
C21_Witness ==
    /\ store["c1"].source = "chatgpt"
    /\ store["c1"].title = <<"A">> /\ store["c1"].url = <<"/", "c">>
    /\ Len(store["c1"].messages) = 2
    /\ store["c1"].savedAt < store["c1"].updatedAt

\* A save request whose conversation is missing or has no id
InvalidSave(r) ==
    /\ r \in 1..Len(reqs)
    /\ reqs[r].msg.type = "SAVE_CONVERSATION"
    /\ \/ ~reqs[r].msg.conversation.present
       \/ reqs[r].msg.conversation.id = ""

\* C22 as stated: a save request whose conversation is missing or has no id
\* is answered with {success: false, error: 'Invalid conversation data'} and
\* with nothing else.
C22_InvalidSaveAsStated ==
    \A r \in 1..Len(reqs) :
        InvalidSave(r) =>
            \A k \in 1..Len(responses[r]) :
                responses[r][k] = Fail("Invalid conversation data")

\* C22: a save request whose conversation is missing or has no id is
\* answered once, with {success: false, error: 'Invalid conversation data'}
\* when the database module is available and with {success: false, error:
\* 'Database is not initialized'} when it is not; no step of its handler
\* changes a stored record or the badge.
C22_InvalidSave ==
    /\ [](\A r \in 1..Len(reqs) :
             InvalidSave(r) =>
                 \/ responses[r] = <<>>
                 \/ dbOk /\ responses[r] = <<Fail("Invalid conversation data")>>
                 \/ ~dbOk /\ responses[r] = <<Fail("Database is not initialized")>>)
    /\ \A r \in 1..MaxReqs :
           InvalidSave(r) ~> (InvalidSave(r) /\ Len(responses[r]) = 1)
    /\ [][\A r \in 1..MaxReqs :
             (InvalidSave(r) /\ reqs'[r] # reqs[r]) =>
                 (store' = store /\ badge' = badge)]_vars

\* C22, reached: a record is stored and counted on the badge, and a save
\* without id has been answered with the failure
C22_Witness ==
    /\ dbOk /\ store["c1"] # NoRecord /\ badge = 1
    /\ InvalidSave(2) /\ reqs[2].msg.conversation.present
    /\ responses[2] = <<Fail("Invalid conversation data")>>

\* The requests whose save of id has put its record
SavesDone(id) ==
    {r \in 1..Len(reqs) :
        /\ reqs[r].msg.type = "SAVE_CONVERSATION"
        /\ reqs[r].msg.conversation.id = id
        /\ reqs[r].error = ""
        /\ reqs[r].stage \in {"badge", "resolved", "responded"}}

NoDeleteOf(id) ==
    \A r \in 1..Len(reqs) :
        ~(reqs[r].msg.type = "DELETE_CONVERSATION" /\ reqs[r].msg.id = id)

\* The record after the save of ca at t1 and then the save of cb at t2
Serial(ca, cb, t1, t2) == ToSave(ToSave(NoRecord, ca, t1), cb, t2)

\* C29: the save transactions of one id do not interleave: the record a save
\* merges with is the one stored when it puts, the record stored after two
\* saves is the result of the two in one of the two orders, and savedAt is
\* the time of the save that put first.
C29_SavesSerialized ==
    /\ [](\A id \in ConvIds :
             (NoDeleteOf(id) /\ Cardinality(SavesDone(id)) = 2) =>
                 \E a, b \in SavesDone(id) :
                     /\ a # b
                     /\ \E t1, t2 \in 1..clock :
                            /\ t1 < t2
                            /\ store[id] = Serial(reqs[a].msg.conversation,
                                                   reqs[b].msg.conversation, t1, t2))
    /\ [][\A id \in ConvIds : \A r \in 1..MaxReqs :
             Putting(r, id) =>
                 /\ reqs[r].existing = store[id]
                 /\ store'[id].savedAt = IF store[id] = NoRecord THEN clock
                                          ELSE store[id].savedAt]_vars

\* C29, reached: two saves of one conversation were in progress together,
\* the one received second put first, and the record is the result of that
\* order
C29_Witness ==
    /\ Len(reqs) = 2 /\ SavesDone("c1") = {1, 2}
    /\ reqs[1].msg.conversation # reqs[2].msg.conversation
    /\ store["c1"] = Serial(reqs[2].msg.conversation,
                            reqs[1].msg.conversation, 1, 2)

\* The pieces of the renderer's templates that open or close an element
ElementToks ==
    {"<code>", "</code>", "<strong>", "</strong>", "<em>", "</em>", "<br>",
     "</a>", LinkOpen, LinkMid}

\* The tokens of h from the href=" at position k up to the template's closing
\* quote
HrefValue(h, k) ==
    LET ends == {e \in (k + 1)..Len(h) : h[e] = LinkMid}
    IN  IF ends = {} THEN SubSeq(h, k + 1, Len(h))
        ELSE SubSeq(h, k + 1,
                    (CHOOSE e \in ends : \A o \in ends : e <= o) - 1)

\* C25: in the HTML renderMarkdown returns, the characters of the input
\* occur as text or inside an href value and create no attribute and no
\* element: no href value holds a double quote or a piece of markup.
C25_NoInjectedMarkup ==
    renPc = "done" =>
        \A k \in 1..Len(out) :
            out[k] = LinkOpen =>
                \A j \in 1..Len(HrefValue(out, k)) :
                    /\ HrefValue(out, k)[j] # "\""
                    /\ HrefValue(out, k)[j] \notin ElementToks

\* The error of a send holds one of the two phrases of a lost connection
LostConnection(o) ==
    /\ o.kind \in {"throws", "lastError", "failure"}
    /\ \E k \in 1..Len(o.message) :
           o.message[k] \in {"Could not establish connection",
                              "Receiving end does not exist"}

\* C23: one call of sendToBackground sends at most twice; it sends a second
\* time only after the first send failed with an error that holds 'Could not
\* establish connection' or 'Receiving end does not exist'; after any other
\* failure of the first send the call is rejected at once; the second send
\* settles the call, resolved when it got a response and rejected otherwise.
C23_AtMostOneRetry ==
    /\ sbSent <= 2
    /\ sbSent = 2 =>
           /\ Len(sbSends) >= 1
           /\ sbSends[1].kind # "response"
           /\ LostConnection(sbSends[1])
    /\ (Len(sbSends) >= 1 /\ sbSends[1].kind # "response"
           /\ ~LostConnection(sbSends[1])) =>
           (sbSent = 1 /\ sbPc = "rejected")
    /\ (Len(sbSends) = 1 /\ sbSends[1].kind = "response") =>
           (sbSent = 1 /\ sbPc = "resolved")
    /\ Len(sbSends) <= 2
    /\ Len(sbSends) = 2 =>
           sbPc = IF sbSends[2].kind = "response" THEN "resolved" ELSE "rejected"

\* C23, reached: the first send lost the connection, the second was answered
\* with a failure that holds the same phrase, and the call is rejected
C23_Witness ==
    /\ sbSent = 2 /\ Len(sbSends) = 2
    /\ sbSends[1].kind = "lastError"
    /\ sbSends[2].kind = "failure" /\ LostConnection(sbSends[2])
    /\ sbPc = "rejected"

\* The calls k and k + 1 are less than the delay apart
InBurst(k) == k < Len(dCalls) /\ dCalls[k + 1].at - dCalls[k].at < Ms

\* C24: the wrapped function runs only for the most recent call, with its
\* arguments, when the delay has passed since that call, and once for a call
\* at most; a call followed by another within the delay never runs, so a
\* burst of calls runs the function once, for its last call, when no timeout
\* is left.
C24_DebounceRunsLast ==
    /\ \A k \in 1..Len(dRuns) :
           /\ dRuns[k].call = dRuns[k].calls
           /\ dRuns[k].args = dCalls[dRuns[k].call].args
           /\ dRuns[k].at >= dCalls[dRuns[k].call].at + Ms
           /\ \A j \in 1..Len(dRuns) : dRuns[j].call = dRuns[k].call => j = k
           /\ ~InBurst(dRuns[k].call)
    /\ (timers = {} /\ dCalls # <<>>) =>
           \E k \in 1..Len(dRuns) : dRuns[k].call = Len(dCalls)

\* C24, reached: three calls, each within the delay of the one before, and
\* one run, with the arguments of the third
C24_Witness ==
    /\ Len(dCalls) = 3 /\ InBurst(1) /\ InBurst(2)
    /\ dCalls[1].args = "x" /\ dCalls[3].args = "y"
    /\ Len(dRuns) = 1 /\ dRuns[1].args = "y" /\ timers = {}

\* C27: at most one onClick call of a save indicator is unsettled; a call of
\* doManualSave made while one is unsettled returns false without calling
\* onClick, and a call made when none is unsettled, also after a rejection,
\* calls onClick.
C27_OneManualSaveInFlight ==
    /\ inFlight <= 1
    /\ inFlight = 0 => ~clickBusy
    /\ \A k \in 1..Len(clicks) :
           /\ clicks[k].called <=> (hasOnClick /\ clicks[k].unsettled = 0)
           /\ ~clicks[k].called => clicks[k].returned = "false"

\* C27, reached: a second click came while the first save was in flight and
\* did not call onClick; the first save was rejected; the third click called
\* onClick again
C27_Witness ==
    /\ Len(clicks) = 3
    /\ clicks[1].called /\ clicks[1].how = "rejected"
    /\ ~clicks[2].called /\ clicks[2].unsettled = 1
    /\ clicks[3].called /\ clicks[3].unsettled = 0

\* A load whose response has not come back
LoadInFlight ==
    \E k \in 1..Len(vwReqs) :
        vwReqs[k].type = "GET_ALL_CONVERSATIONS" /\ vwReqs[k].stage # "delivered"

\* C28: when no load is in flight, allConversations holds no conversation for
\* which deleteCurrentConversation has received a successful response, and
\* the loading flag is false.
C28_DeletedNotListed ==
    ~LoadInFlight =>
        /\ allConversations \cap vwDeleted = {}
        /\ loading = FALSE

\* The page at path with elements e holds a message that can be extracted
Extractable(s, p, e) ==
    /\ isConversationPage(s, p)
    /\ \E k \in 1..Len(e) :
           Cardinality({j \in 1..Len(e[k]) : e[k][j] \notin WS})
               >= (IF s = "claude" THEN 2 ELSE 1)

\* C26: every SAVE_CONVERSATION message a content script sends carries a
\* conversation with an id, at least one message and no message without
\* content, scraped from a conversation page that holds a message that can
\* be extracted, with the id and url of that page.
C26_OnlyScrapedConversationsSent ==
    lastSent # NoSend =>
        LET c == lastSent.conversation
        IN  /\ c.present /\ c.id # <<>> /\ c.source = site
            /\ Len(c.messages) >= 1
            /\ \A k \in 1..Len(c.messages) : c.messages[k].content # <<>>
            /\ Extractable(site, lastSent.path, lastSent.els)
            /\ c.url = Href(lastSent.path)

\* C26, reached: the Claude script has sent a conversation whose message is
\* the trimmed text of an element, and the page has since lost its messages
C26_Witness ==
    /\ site = "claude" /\ lastSent # NoSend
    /\ lastSent.els = <<<<" ", "h", "i">>>>
    /\ lastSent.conversation.messages[1].content = <<"h", "i">>
    /\ ~Extractable(site, path, els)

\* C30: when from some time on the page stays a conversation page with a
\* message that can be extracted, a save is sent, whatever the mutations do
\* to the timeout of debouncedSave.
C30_SaveEventuallyAttempted ==
    <>[]Extractable(site, path, els) => <>(lastSent # NoSend)

\* C30, reached: the first save found nothing to send, mutations are pending
\* in debouncedSave, and a save has been sent
C30_Witness ==
    /\ inited /\ "first" \notin armed /\ debounced # {}
    /\ lastSent # NoSend
====
